---- MODULE Spec2Model ----
(***************************************************************************)
(* A model of the axp tokenizer (src/src/lex.rs) and parser                *)
(* (src/src/parse.rs).  A byte string is a sequence of one-character       *)
(* strings, an offset counts the bytes already consumed; the byte 0 is     *)
(* written "NUL".                                                          *)
(***************************************************************************)
EXTENDS Integers, Sequences, FiniteSets, TLC

\* ------------------------------------------------------------------------
\* Bounds of the model
\* ------------------------------------------------------------------------

\* every byte string over Alphabet of at most MaxLen bytes is an input
MaxLen == 4

Alphabet == {"a", "b", " ", ":", "(", ")", "\"", "\\", "#"}

\* every byte string over Structural of at most MaxDeep bytes is an input
MaxDeep == 6

Structural == {"a", " ", ":", "(", ")"}

\* longer inputs taken from the tests of parse.rs and lex.rs and from the
\* documented scenarios
Scenarios ==
  { <<" ", "x", " ", "(", ")", " ">>,
    <<"k", ":", " ", "v">>,
    <<"a", ":", " ", "1", " ", "a", ":", " ", "2">>,
    <<"(", "a", ":", "1", " ", "b", ":", "2", ")">>,
    <<"(", "k", ":", " ", "(", "x", ")", ")">>,
    <<"k", ":", " ", "(", "x", ")", ")">>,
    <<"S", " ", "(", " ", "T", " ", ")", " ", "!">>,
    <<"(", "(", "a", ")", " ", "b", ")", " ", "c">>,
    <<"#", " ", "c", "\n", "a", " ", "b">>,
    <<"a", " ", "\"", "t", "\\", "n", "l", "\"">>,
    <<"k", ":", " ", "\"", "v", "\"">>,
    <<"\"", "\\", "x", "4", "1", "\"">>,
    <<"\"", "\\", "x", "\"">>,
    <<"#", "\"", "a", "b", "#", "\"">>,
    <<"#", "(", "g", ")", "\"", "a", "\"", "#", "(", "g", ")", "\"">>,
    <<"a", "#", " ", "c", "\n", "(", ")">>,
    <<"(", "#", "\t", "\"", "\r", "a", ")">>,
    <<"(", "a", ")", "#", " ", "c", "\n", "a">>,
    <<"a", "#", " ", "\n", "(", ")">>,
    <<"#", "#", " ", "c", "\n", " ", "#", " ", "c">>,
    <<"a", " ", "\"">>,
    <<"#", "(", ")", "\"", "a", "#", "(", ")", "\"">>,
    <<"#", "(", "g", ")", "\"", "a", "b", "c", "#", "(", "g", ")", "\"">>,
    <<"#", "(", "g", ")", "\"", "#", "(", "g", ")", "\"", "a">>,
    <<"\"", "a", "b", "c", "\"", "a">>,
    <<"\"", "#", "\\", "n", "\"">>,
    <<"\"", "\\", "\"", "\\", "e", "\"">>,
    <<"\"", "\\", "u", "\"">>,
    <<"\"", "\\", " ", "a", "\"">>,
    <<"\"", "a", "\\", "0", "\\", "r", "\\", "t">>,
    <<"a", "NUL", "b", " ", "c">>,
    <<"NUL">>,
    <<"(", "NUL", ")">>,
    <<"0", "1", "2", "3", "4", "5", "6", "7", "8", "9", "a", "b", "c", "d",
      "e", "f", "g", "h", "i", "j", "k", "l", "m", "n", "o", "p", "q", "r",
      "s", "t", "u", "v", "w", "x", "y", "z">>,
    <<" ", "\n", "\r", "\t", " ", "\n", "\r", "\t", " ", "\n", "\r", "\t",
      " ", "\n", "\r", "\t", " ", "\n", "\r", "\t", " ">>,
    <<"a", "a", "a", "a", "a", "a", "a", "a", "a", "a", "a", "a", "a", "a",
      "a", "a", "a", "a", "a", "a", "a", "a", "a", "a", "a", "a", "a", "a",
      "a", "a", "a", "a", "a", "a", "a", "a", "a", "a", "a", "a", "a">>,
    <<"#", " ", "c", "\n", "\n", "\n", "\n", "\n", "\n", "\n", "\n", "\n",
      "\n", "\n", "\n", "\n", "\n", "\n", "\n", "\n", "\n", "\n", "\n",
      "\n">>,
    <<"#", "b", "b", "b", "b", "b", "b", "b", "b", "b", "b", "b", "b", "b",
      "b", "b", "b", "b", "b", "b", "b", "b", "b">>,
    <<"#", "#", "#", "#", "#", "#", "#", "#", "#", "#", "#", "#", "#", "#",
      "#", "#", "#", "#", "#", "#", "#", "#", "#", "#", "#", "#", "#", "#",
      "#", "#", "#", "#", "#", "#", "#", "#", "#", "#", "#", "#", " ",
      "c">>,
    <<"i", "f", " ", "t", "r", "u", "e", " ", "a">>,
    <<"(", "k", ":", " ", "v", "v", "v", "v", "v", "v", "v", "v", "v", "v",
      "v", "v", "v", "v", "v", "v", "v", "v", "v", "v", "v", ")">> }

\* ------------------------------------------------------------------------
\* Byte classes of the token patterns
\* ------------------------------------------------------------------------

WhiteSpaceBytes == {" ", "\n", "\r", "\t"}

BlankBytes == {" ", "\t"}

LineEndBytes == {"\n", "\r"}

\* a Bare class without the byte 0
NotBareBytesAndNul ==
  {":", "#", "(", ")", " ", "\n", "\r", "\t", "\\", "\"", "NUL"}

NotBareBytes == {":", "#", "(", ")", " ", "\n", "\r", "\t", "\\", "\""}

NotBaseGuardBytes == {"#", "(", ")", " ", "\n", "\r", "\t", "\\", "\""}

NotQuotedGuardBytes == {" ", "\n", "\r", "\t", "\\", "\""}

NotPartBytes == {"\\", "\""}

EscLetterBytes == {"\"", "e", "n", "r", "t", "0"}

NotBadEscBytes == {"\"", "e", "n", "r", "t", "0", "x", "u"}

HexBytes == {"0", "1", "2", "3", "4", "5", "6", "7", "8", "9",
             "a", "b", "c", "d", "e", "f", "A", "B", "C", "D", "E", "F"}

RunCap == 20

GuardCap == 8

HexMin == 2

HexMax == 8

\* ------------------------------------------------------------------------
\* Helpers for matching
\* ------------------------------------------------------------------------

\* F of the value of v: v is evaluated once, before F is applied to it
On(F(_), v) == CHOOSE y \in {F(x) : x \in {v}} : TRUE

\* the byte at index i, "EOF" past the end
At(in, i) == IF i >= 1 /\ i <= Len(in) THEN in[i] ELSE "EOF"

\* length of the longest run of bytes of S starting at index i, at most cap
RECURSIVE RunIn(_, _, _, _)
RunIn(in, S, i, cap) ==
  IF cap <= 0 \/ i > Len(in) THEN 0
  ELSE IF in[i] \notin S THEN 0
  ELSE 1 + RunIn(in, S, i + 1, cap - 1)

\* length of the longest run of bytes outside Ex starting at i, at most cap
RECURSIVE RunNot(_, _, _, _)
RunNot(in, Ex, i, cap) ==
  IF cap <= 0 \/ i > Len(in) THEN 0
  ELSE IF in[i] \in Ex THEN 0
  ELSE 1 + RunNot(in, Ex, i + 1, cap - 1)

\* the candidate of the greatest length, and among those of the greatest
\* priority; a candidate of length 0 is no match
Longest(cands) ==
  LET ok == {c \in cands : c.len > 0}
  IN IF ok = {} THEN [kind |-> "Error", len |-> 0, prio |-> 0]
     ELSE CHOOSE c \in ok : \A d \in ok :
            \/ d.len < c.len
            \/ d.len = c.len /\ d.prio <= c.prio

Cand(kind, len, prio) == [kind |-> kind, len |-> len, prio |-> prio]

\* ------------------------------------------------------------------------
\* The three mode lexers: the patterns of the enums Base, Comment, Quoted
\* ------------------------------------------------------------------------

\* #+[ \t][^\n\r]{1,20}
BaseCommentLen(in, i) ==
  LET h == RunIn(in, {"#"}, i, Len(in))
      body == RunNot(in, LineEndBytes, i + h + 1, RunCap)
  IN IF h >= 1 /\ At(in, i + h) \in BlankBytes /\ body >= 1
     THEN h + 1 + body ELSE 0

\* #\([^\)]{1,8}\)?
BaseBadGuardLen(in, i) ==
  LET m == RunNot(in, {")"}, i + 2, GuardCap)
  IN IF At(in, i) = "#" /\ At(in, i + 1) = "(" /\ m >= 1
     THEN 2 + m + (IF At(in, i + 2 + m) = ")" THEN 1 ELSE 0)
     ELSE 0

\* a stray # taken alone, without the byte after it
BaseBadHashLenOne(in, i) ==
  IF At(in, i) = "#" /\ i + 1 <= Len(in)
     /\ At(in, i + 1) \notin (BlankBytes \cup {"("})
  THEN 1 ELSE 0

\* #[^ \t\(]
BaseBadHashLen(in, i) ==
  IF At(in, i) = "#" /\ i + 1 <= Len(in)
     /\ At(in, i + 1) \notin (BlankBytes \cup {"("})
  THEN 2 ELSE 0

\* (?&guard)" with guard = (#(\([^#\(\) \n\r\t\\"]{0,8}\))?)?
BaseQuotedLen(in, i) ==
  LET g == RunNot(in, NotBaseGuardBytes, i + 2, Len(in))
  IN CASE At(in, i) = "\"" -> 1
       [] At(in, i) = "#" /\ At(in, i + 1) = "\"" -> 2
       [] At(in, i) = "#" /\ At(in, i + 1) = "(" /\ g <= GuardCap
          /\ At(in, i + 2 + g) = ")" /\ At(in, i + 3 + g) = "\"" -> g + 4
       [] OTHER -> 0

\* a Base lexer whose Bare pattern goes one byte beyond the cap
BaseMatchLongBare(in, i) ==
  Longest({
    Cand("WhiteSpace", RunIn(in, WhiteSpaceBytes, i, RunCap), 1),
    Cand("Comment", BaseCommentLen(in, i), 4),
    Cand("Bare", RunNot(in, NotBareBytes, i, RunCap + 1), 1),
    Cand("Colon", IF At(in, i) = ":" THEN 1 ELSE 0, 2),
    Cand("Open", IF At(in, i) = "(" THEN 1 ELSE 0, 2),
    Cand("Close", IF At(in, i) = ")" THEN 1 ELSE 0, 2),
    Cand("Bad", IF At(in, i) = "\\" THEN 1 ELSE 0, 2),
    Cand("Bad", BaseBadGuardLen(in, i), 5),
    Cand("Bad", BaseBadHashLen(in, i), 3),
    Cand("Quoted", BaseQuotedLen(in, i), 2) })

\* The priority of a pattern is 2 for each literal byte and 1 for each
\* class, an optional part counting 0; it decides between two patterns
\* that match the same bytes (here only #" : Bad before Quoted).
BaseMatch(in, i) ==
  Longest({
    Cand("WhiteSpace", RunIn(in, WhiteSpaceBytes, i, RunCap), 1),
    Cand("Comment", BaseCommentLen(in, i), 4),
    Cand("Bare", RunNot(in, NotBareBytes, i, RunCap), 1),
    Cand("Colon", IF At(in, i) = ":" THEN 1 ELSE 0, 2),
    Cand("Open", IF At(in, i) = "(" THEN 1 ELSE 0, 2),
    Cand("Close", IF At(in, i) = ")" THEN 1 ELSE 0, 2),
    Cand("Bad", IF At(in, i) = "\\" THEN 1 ELSE 0, 2),
    Cand("Bad", BaseBadGuardLen(in, i), 5),
    Cand("Bad", BaseBadHashLen(in, i), 3),
    Cand("Quoted", BaseQuotedLen(in, i), 2) })

CommentMatch(in, i) ==
  Longest({
    Cand("End", IF At(in, i) \in LineEndBytes THEN 1 ELSE 0, 1),
    Cand("Part", RunNot(in, LineEndBytes, i, RunCap), 1) })

\* the length of a guard (#[^ \n\r\t\\"]{0,8})? at i that is followed by a
\* backslash or a quote; -1 if there is none.  The guard bytes exclude both,
\* so the run after # is the only candidate.
QuotedGuardLen(in, i) ==
  LET g == RunNot(in, NotQuotedGuardBytes, i + 1, Len(in))
  IN CASE At(in, i) \in {"\\", "\""} -> 0
       [] At(in, i) = "#" /\ g <= GuardCap
          /\ At(in, i + 1 + g) \in {"\\", "\""} -> 1 + g
       [] OTHER -> 0 - 1

\* an escape letter class without the quote
EscLetterLenNoQuote(in, b) ==
  IF At(in, b) = "\\" /\ At(in, b + 1) \in (EscLetterBytes \ {"\""})
  THEN 2 ELSE 0

\* the length of an escape body that starts at the backslash at index b
\* \\["enrt0]
EscLetterLen(in, b) ==
  IF At(in, b) = "\\" /\ At(in, b + 1) \in EscLetterBytes THEN 2 ELSE 0

\* \\x[0-9a-fA-F]{2}
EscHexLen(in, b) ==
  IF At(in, b) = "\\" /\ At(in, b + 1) = "x"
     /\ At(in, b + 2) \in HexBytes /\ At(in, b + 3) \in HexBytes
  THEN 4 ELSE 0

\* \\u\x7b[0-9a-fA-F]{2,8}\x7d
EscUnicodeLen(in, b) ==
  LET h == RunIn(in, HexBytes, b + 3, Len(in))
  IN IF At(in, b) = "\\" /\ At(in, b + 1) = "u" /\ At(in, b + 2) = "{"
        /\ h >= HexMin /\ h <= HexMax /\ At(in, b + 3 + h) = "}"
     THEN 4 + h ELSE 0

\* \\[ \n\r\t]{1,20}\\
EscGapLen(in, b) ==
  LET w == RunIn(in, WhiteSpaceBytes, b + 1, Len(in))
  IN IF At(in, b) = "\\" /\ w >= 1 /\ w <= RunCap
        /\ At(in, b + 1 + w) = "\\"
     THEN w + 2 ELSE 0

\* \\[^"enrt0xu]
BadEscLen(in, b) ==
  IF At(in, b) = "\\" /\ b + 1 <= Len(in)
     /\ At(in, b + 1) \notin NotBadEscBytes
  THEN 2 ELSE 0

Guarded(g, len) == IF g >= 0 /\ len > 0 THEN g + len ELSE 0

QuotedMatch(in, i) ==
  LET g == QuotedGuardLen(in, i)
      b == i + g
  IN Longest({
       Cand("Part", RunNot(in, NotPartBytes, i, RunCap), 1),
       Cand("Esc", Guarded(g, EscLetterLen(in, b)), 3),
       Cand("Esc", Guarded(g, EscHexLen(in, b)), 6),
       Cand("Esc", Guarded(g, EscUnicodeLen(in, b)), 10),
       Cand("Esc", Guarded(g, EscGapLen(in, b)), 5),
       Cand("Bad", Guarded(g, BadEscLen(in, b)), 3),
       Cand("End", Guarded(g, IF At(in, b) = "\"" THEN 1 ELSE 0), 2) })

\* logos::Lexer::next of a mode at offset pos: None at the end of the
\* input, Err where no pattern matches, else the token and its slice
LogosNext(in, pos, m) ==
  IF pos >= Len(in) THEN [res |-> "None", kind |-> "None", s |-> <<>>, end |-> pos]
  ELSE IF m.len = 0 THEN [res |-> "Err", kind |-> "Error", s |-> <<>>, end |-> pos + 1]
  ELSE [res |-> "Ok", kind |-> m.kind,
        s |-> SubSeq(in, pos + 1, pos + m.len), end |-> pos + m.len]

\* ------------------------------------------------------------------------
\* AxpLexer
\* ------------------------------------------------------------------------

NoToken == [kind |-> "None", s |-> <<>>]

\* what a pull leaves behind when it panics: there is no token
Unwound == [kind |-> "Unwound", s |-> <<>>]

Tok(kind, s) == [kind |-> kind, s |-> s]

slice_without_last(bytes) ==
  IF bytes = <<>> THEN <<>> ELSE SubSeq(bytes, 1, Len(bytes) - 1)

\* lex(): the Base mode at the start of the input, with an empty guard
lex == [mode |-> "Base", pos |-> 0, guard |-> <<>>]

Step(ret, panic, tok, mode, pos, guard) ==
  [ret |-> ret, panic |-> panic, tok |-> tok,
   lx |-> [mode |-> mode, pos |-> pos, guard |-> guard]]

\* One iteration of the loop of AxpLexer::next in Base mode, r being the
\* result of lex_base.next(): ret is FALSE where the code continues the
\* loop, panic is TRUE at unreachable!
BaseArm(r, lx) ==
  CASE r.res = "None" -> Step(TRUE, FALSE, NoToken, "Base", r.end, lx.guard)
    [] r.res = "Err" -> Step(TRUE, TRUE, NoToken, "Base", r.end, lx.guard)
    [] r.res = "Ok" /\ r.kind = "Comment" ->
         Step(TRUE, FALSE, Tok("Comment", r.s), "Comment", r.end, lx.guard)
    [] r.res = "Ok" /\ r.kind = "Quoted" ->
         Step(FALSE, FALSE, NoToken, "Quoted", r.end, slice_without_last(r.s))
    [] r.res = "Ok" /\ r.kind \in {"Colon", "Open", "Close"} ->
         Step(TRUE, FALSE, Tok(r.kind, <<>>), "Base", r.end, lx.guard)
    [] OTHER -> Step(TRUE, FALSE, Tok(r.kind, r.s), "Base", r.end, lx.guard)

NextBase(in, lx) ==
  On(LAMBDA r : BaseArm(r, lx),
     On(LAMBDA m : LogosNext(in, lx.pos, m), BaseMatch(in, lx.pos + 1)))

\* a Comment arm that stays in the comment at a line terminator
CommentArmStay(r, lx) ==
  CASE r.res = "None" -> Step(TRUE, FALSE, NoToken, "Comment", r.end, lx.guard)
    [] r.res = "Err" -> Step(TRUE, TRUE, NoToken, "Comment", r.end, lx.guard)
    [] r.res = "Ok" /\ r.kind = "End" ->
         Step(TRUE, FALSE, Tok("WhiteSpace", r.s), "Comment", r.end, lx.guard)
    [] OTHER -> Step(TRUE, FALSE, Tok("Comment", r.s), "Comment", r.end, lx.guard)

CommentArm(r, lx) ==
  CASE r.res = "None" -> Step(TRUE, FALSE, NoToken, "Comment", r.end, lx.guard)
    [] r.res = "Err" -> Step(TRUE, TRUE, NoToken, "Comment", r.end, lx.guard)
    [] r.res = "Ok" /\ r.kind = "End" ->
         Step(TRUE, FALSE, Tok("WhiteSpace", r.s), "Base", r.end, lx.guard)
    [] OTHER -> Step(TRUE, FALSE, Tok("Comment", r.s), "Comment", r.end, lx.guard)

NextComment(in, lx) ==
  On(LAMBDA r : CommentArm(r, lx),
     On(LAMBDA m : LogosNext(in, lx.pos, m), CommentMatch(in, lx.pos + 1)))

\* a Quoted arm that leaves the string at every closer
QuotedArmAnyGuard(r, lx) ==
  CASE r.res = "None" ->
         Step(TRUE, FALSE, Tok("Bad", <<"\"">>), "Base", r.end, lx.guard)
    [] r.res = "Err" -> Step(TRUE, TRUE, NoToken, "Quoted", r.end, lx.guard)
    [] r.res = "Ok" /\ r.kind = "Part" ->
         Step(TRUE, FALSE, Tok("Quoted", r.s), "Quoted", r.end, lx.guard)
    [] r.res = "Ok" /\ r.kind = "End" ->
         Step(FALSE, FALSE, NoToken, "Base", r.end, lx.guard)
    [] OTHER -> Step(TRUE, FALSE, Tok(r.kind, r.s), "Quoted", r.end, lx.guard)

\* a Quoted arm that ends the stream at the end of the input
QuotedArmSilent(r, lx) ==
  CASE r.res = "None" -> Step(TRUE, FALSE, NoToken, "Quoted", r.end, lx.guard)
    [] r.res = "Err" -> Step(TRUE, TRUE, NoToken, "Quoted", r.end, lx.guard)
    [] r.res = "Ok" /\ r.kind = "Part" ->
         Step(TRUE, FALSE, Tok("Quoted", r.s), "Quoted", r.end, lx.guard)
    [] r.res = "Ok" /\ r.kind = "End" ->
         IF lx.guard = slice_without_last(r.s)
         THEN Step(FALSE, FALSE, NoToken, "Base", r.end, lx.guard)
         ELSE Step(TRUE, FALSE, Tok("Quoted", r.s), "Quoted", r.end, lx.guard)
    [] OTHER -> Step(TRUE, FALSE, Tok(r.kind, r.s), "Quoted", r.end, lx.guard)

QuotedArm(r, lx) ==
  CASE r.res = "None" ->
         Step(TRUE, FALSE, Tok("Bad", <<"\"">>), "Base", r.end, lx.guard)
    [] r.res = "Err" -> Step(TRUE, TRUE, NoToken, "Quoted", r.end, lx.guard)
    [] r.res = "Ok" /\ r.kind = "Part" ->
         Step(TRUE, FALSE, Tok("Quoted", r.s), "Quoted", r.end, lx.guard)
    [] r.res = "Ok" /\ r.kind = "End" ->
         IF lx.guard = slice_without_last(r.s)
         THEN Step(FALSE, FALSE, NoToken, "Base", r.end, lx.guard)
         ELSE Step(TRUE, FALSE, Tok("Quoted", r.s), "Quoted", r.end, lx.guard)
    [] OTHER -> Step(TRUE, FALSE, Tok(r.kind, r.s), "Quoted", r.end, lx.guard)

NextQuoted(in, lx) ==
  On(LAMBDA r : QuotedArm(r, lx),
     On(LAMBDA m : LogosNext(in, lx.pos, m), QuotedMatch(in, lx.pos + 1)))

LoopStep(in, lx) ==
  CASE lx.mode = "Base" -> NextBase(in, lx)
    [] lx.mode = "Comment" -> NextComment(in, lx)
    [] OTHER -> NextQuoted(in, lx)

\* AxpLexer::next: the loop runs until an iteration returns or panics
RECURSIVE Loop(_, _)
Loop(in, r) ==
  IF r.ret THEN r ELSE On(LAMBDA q : Loop(in, q), LoopStep(in, r.lx))

AxpNext(in, lx) == On(LAMBDA r : Loop(in, r), LoopStep(in, lx))

\* lex(input).collect(): the tokens up to the end of the stream, and whether
\* a pull panicked before the end
RECURSIVE Collect(_, _, _)
Collect(in, r, acc) ==
  IF r.panic THEN [toks |-> acc, panic |-> TRUE]
  ELSE IF r.tok = NoToken THEN [toks |-> acc, panic |-> FALSE]
  ELSE Collect(in, AxpNext(in, r.lx), Append(acc, r.tok))

LexAll(in) == Collect(in, AxpNext(in, lex), <<>>)

\* ------------------------------------------------------------------------
\* Items (item.rs, atom.rs, list.rs, map.rs)
\* ------------------------------------------------------------------------

new_atom(s) == [t |-> "Atom", b |-> s]

new_list(elems) == [t |-> "List", e |-> elems]

new_map(pairs) == [t |-> "Map", e |-> pairs]

nil == new_list(<<>>)

is_empty(item) == IF item.t = "Atom" THEN item.b = <<>> ELSE item.e = <<>>

\* a push at the front instead of the back
ListPushFront(list, item) == new_list(<<item>> \o list.e)

ListPush(list, item) == new_list(Append(list.e, item))

\* a push that replaces the value of an equal key instead of adding a pair
MapPushReplace(map, key, value) ==
  IF \E i \in 1..Len(map.e) : map.e[i][1] = key
  THEN new_map([i \in 1..Len(map.e) |->
         IF map.e[i][1] = key THEN <<key, value>> ELSE map.e[i]])
  ELSE new_map(Append(map.e, <<key, value>>))

MapPush(map, key, value) == new_map(Append(map.e, <<key, value>>))

\* List::first
first(list) == IF is_empty(list) THEN nil ELSE list.e[1]

\* a tail that drops the last element instead of the first
tailWithoutLast(list) ==
  IF is_empty(list) THEN nil
  ELSE new_list(SubSeq(list.e, 1, Len(list.e) - 1))

\* List::tail
tail(list) == IF is_empty(list) THEN nil ELSE new_list(Tail(list.e))

\* ------------------------------------------------------------------------
\* Pretty printing of byte slices (pretty.rs).  Here a byte is a number
\* 0..255 and a String is the sequence of its chars, a char being the
\* number of its Unicode scalar value.
\* ------------------------------------------------------------------------

\* the byte at index i, -1 past the end
ByteAt(bytes, i) == IF i >= 1 /\ i <= Len(bytes) THEN bytes[i] ELSE -1

IsCont(b) == b >= 128 /\ b <= 191

\* std::str::from_utf8 on the bytes from index i: the length of the scalar
\* that starts there, 0 if the bytes there are not a whole valid scalar
\* (valid_up_to() is 0)
Utf8Len(b0, b1, b2, b3) ==
  IF b0 >= 0 /\ b0 <= 127 THEN 1
  ELSE IF b0 >= 194 /\ b0 <= 223 /\ IsCont(b1) THEN 2
  ELSE IF b0 = 224 /\ b1 >= 160 /\ b1 <= 191 /\ IsCont(b2) THEN 3
  ELSE IF b0 >= 225 /\ b0 <= 236 /\ IsCont(b1) /\ IsCont(b2) THEN 3
  ELSE IF b0 = 237 /\ b1 >= 128 /\ b1 <= 159 /\ IsCont(b2) THEN 3
  ELSE IF b0 >= 238 /\ b0 <= 239 /\ IsCont(b1) /\ IsCont(b2) THEN 3
  ELSE IF b0 = 240 /\ b1 >= 144 /\ b1 <= 191 /\ IsCont(b2) /\ IsCont(b3) THEN 4
  ELSE IF b0 >= 241 /\ b0 <= 243 /\ IsCont(b1) /\ IsCont(b2) /\ IsCont(b3) THEN 4
  ELSE IF b0 = 244 /\ b1 >= 128 /\ b1 <= 143 /\ IsCont(b2) /\ IsCont(b3) THEN 4
  ELSE 0

\* .chars().next(): the scalar value of the n bytes
Utf8Char(n, b0, b1, b2, b3) ==
  IF n = 1 THEN b0
  ELSE IF n = 2 THEN (b0 - 192) * 64 + (b1 - 128)
  ELSE IF n = 3 THEN (b0 - 224) * 4096 + (b1 - 128) * 64 + (b2 - 128)
  ELSE (b0 - 240) * 262144 + (b1 - 128) * 4096 + (b2 - 128) * 64 + (b3 - 128)

\* char::is_control: the category Cc
is_control(c) == (c >= 0 /\ c <= 31) \/ (c >= 127 /\ c <= 159)

\* char::is_whitespace: the property White_Space
is_whitespace(c) ==
  \/ (c >= 9 /\ c <= 13)
  \/ c \in {32, 133, 160, 5760, 8232, 8233, 8239, 8287, 12288}
  \/ (c >= 8192 /\ c <= 8202)

\* char::is_ascii_control
ascii_x_esc(c) == (c >= 0 /\ c <= 31) \/ c = 127

x_esc(c) == is_control(c) /\ is_whitespace(c) /\ c > 255

\* a lower-case hex digit as a char
HexDigit(n) == IF n < 10 THEN 48 + n ELSE 87 + n

\* {:02x} of a number below 256
Hex02(n) == <<HexDigit(n \div 16), HexDigit(n % 16)>>

\* {:x}
RECURSIVE HexX(_)
HexX(n) == IF n < 16 THEN <<HexDigit(n)>> ELSE Append(HexX(n \div 16), HexDigit(n % 16))

Output(contents, input_len, valid_utf8) ==
  [contents |-> contents, input_len |-> input_len, valid_utf8 |-> valid_utf8]

\* Output::char_count
char_count(item) == Len(item.contents)

\* a backslash that is not doubled
EscapedSingleBackslash(c) ==
  IF c = 13 THEN <<92, 114>>
  ELSE IF c = 10 THEN <<92, 110>>
  ELSE IF c = 9 THEN <<92, 116>>
  ELSE IF c = 0 THEN <<92, 48>>
  ELSE IF ascii_x_esc(c) THEN <<92, 120>> \o Hex02(c)
  ELSE IF x_esc(c) THEN <<92, 88>> \o HexX(c) \o <<59>>
  ELSE <<c>>

\* the match on c of valid_char
Escaped(c) ==
  IF c = 92 THEN <<92, 92>>
  ELSE IF c = 13 THEN <<92, 114>>
  ELSE IF c = 10 THEN <<92, 110>>
  ELSE IF c = 9 THEN <<92, 116>>
  ELSE IF c = 0 THEN <<92, 48>>
  ELSE IF ascii_x_esc(c) THEN <<92, 120>> \o Hex02(c)
  ELSE IF x_esc(c) THEN <<92, 88>> \o HexX(c) \o <<59>>
  ELSE <<c>>

\* valid_char: the first scalar of the bytes, escaped
valid_char(n, b0, b1, b2, b3) ==
  Output(Escaped(Utf8Char(n, b0, b1, b2, b3)), n, TRUE)

\* the item made of n bytes that begin with b0, n = 0 being an invalid byte
OutputOf(n, b0, b1, b2, b3) ==
  IF n > 0 THEN valid_char(n, b0, b1, b2, b3)
  ELSE Output(Hex02(b0), 1, FALSE)

\* OutputIterator::next with pos bytes of the slice already read (the slice
\* is not empty)
OutputAt(b0, b1, b2, b3) == OutputOf(Utf8Len(b0, b1, b2, b3), b0, b1, b2, b3)

OutputNext(bytes, pos) ==
  OutputAt(ByteAt(bytes, pos + 1), ByteAt(bytes, pos + 2),
           ByteAt(bytes, pos + 3), ByteAt(bytes, pos + 4))

\* OutputIterator(&input[pos..]).collect()
RECURSIVE Collected(_, _, _)
Collected(bytes, pos, acc) ==
  IF pos >= Len(bytes) THEN acc
  ELSE Collected(bytes, pos + OutputNext(bytes, pos).input_len,
                 Append(acc, OutputNext(bytes, pos)))

\* the loop of coalesced(), i being the index of the next item
RECURSIVE coalescedLoop(_, _, _, _)
coalescedLoop(output, i, invalid, result) ==
  IF i > Len(output) THEN result
  ELSE IF output[i].valid_utf8 /\ invalid
    THEN coalescedLoop(output, i + 1, FALSE,
           Append(result, 59) \o output[i].contents)
  ELSE IF ~output[i].valid_utf8 /\ ~invalid
    THEN coalescedLoop(output, i + 1, TRUE,
           result \o <<92, 85>> \o output[i].contents)
  ELSE coalescedLoop(output, i + 1, invalid, result \o output[i].contents)

coalesced(output) == coalescedLoop(output, 1, FALSE, <<>>)

\* the gap indicator U+2824
GapMarker == 10276

\* the greatest usize of the model
MaxUsize == 65535

\* no clamping of the width
Unclamped(width) == width

\* let width = match width { 1..=6 => 6, _ => width }
Clamped(width) == IF width >= 1 /\ width <= 6 THEN 6 ELSE width

Part1(output, cc, len) == [output |-> output, char_count |-> cc, part1_len |-> len]

\* the first loop of pretty(): the items of the first part, pos being the
\* bytes the iterator has read
RECURSIVE HeadLoop(_, _, _, _, _)
HeadLoop(input_, pos, shortened, width2, p) ==
  IF pos >= Len(input_) THEN p
  ELSE IF shortened /\ p.char_count >= width2 THEN p
  ELSE HeadLoop(input_, pos + OutputNext(input_, pos).input_len,
         shortened, width2,
         Part1(Append(p.output, OutputNext(input_, pos)),
               p.char_count + char_count(OutputNext(input_, pos)),
               p.part1_len + OutputNext(input_, pos).input_len))

\* a first loop that breaks one char later
FirstPartOneMore(input_, shortened, width2) ==
  HeadLoop(input_, 0, shortened, width2 + 1, Part1(<<>>, 0, 0))

FirstPart(input_, shortened, width2) ==
  HeadLoop(input_, 0, shortened, width2, Part1(<<>>, 0, 0))

\* a.saturating_sub(b)
saturating_sub(a, b) == IF a >= b THEN a - b ELSE 0

Max(a, b) == IF a >= b THEN a ELSE b

\* a take_while that stops one char early
RECURSIVE TakeWhileBelow(_, _, _, _, _)
TakeWhileBelow(output, k, cc, len, width2) ==
  IF k = 0 THEN [count |-> Len(output), part2_len |-> len]
  ELSE IF cc + char_count(output[k]) < width2
    THEN TakeWhileBelow(output, k - 1, cc + char_count(output[k]),
                        len + output[k].input_len, width2)
  ELSE [count |-> Len(output) - k, part2_len |-> len + output[k].input_len]

\* the take_while over the reversed items: the closure adds an item to
\* char_count and part2_len before it compares, also the item it refuses
RECURSIVE TakeWhile(_, _, _, _, _)
TakeWhile(output, k, cc, len, width2) ==
  IF k = 0 THEN [count |-> Len(output), part2_len |-> len]
  ELSE IF cc + char_count(output[k]) <= width2
    THEN TakeWhile(output, k - 1, cc + char_count(output[k]),
                   len + output[k].input_len, width2)
  ELSE [count |-> Len(output) - k, part2_len |-> len + output[k].input_len]

\* the sum of the input_len of the first n items
RECURSIVE InputLen(_, _)
InputLen(output, n) ==
  IF n = 0 THEN 0 ELSE InputLen(output, n - 1) + output[n].input_len

\* what pretty() returned: the String, and for the properties the bytes of
\* the first part, the offset where the second part starts and whether the
\* gap indicator was pushed
Shown(text, part1_len, from2, gap, head_chars) ==
  [st |-> "Ok", text |-> text, part1_len |-> part1_len, from2 |-> from2,
   gap |-> gap, head_chars |-> head_chars]

\* no call of pretty() yet
NotShown ==
  [st |-> "none", text |-> <<>>, part1_len |-> 0, from2 |-> 0,
   gap |-> FALSE, head_chars |-> 0]

ShownPanic ==
  [st |-> "panic", text |-> <<>>, part1_len |-> 0, from2 |-> 0,
   gap |-> FALSE, head_chars |-> 0]

\* the end of pretty(): the gap indicator and the second part, start2 being
\* the index into output
TailText(p, start2b, output, start2, consumed) ==
  Shown(coalesced(p.output)
           \o (IF consumed THEN <<>> ELSE <<GapMarker>>)
           \o coalesced(SubSeq(output, (IF consumed THEN 0 ELSE start2) + 1,
                               Len(output))),
         p.part1_len,
         start2b + InputLen(output, IF consumed THEN 0 ELSE start2),
         ~consumed, p.char_count)

\* the bytes count as consumed only when the two parts overlap
TailTakenStrict(input_, p, start2b, output, t) ==
  TailText(p, start2b, output, Len(output) - t.count,
           p.part1_len + t.part2_len > Len(input_))

TailTaken(input_, p, start2b, output, t) ==
  TailText(p, start2b, output, Len(output) - t.count,
           p.part1_len + t.part2_len >= Len(input_))

TailFrom(input_, p, start2b, output, width2) ==
  TailTaken(input_, p, start2b, output,
            TakeWhile(output, Len(output), 0, 0, width2))

\* a second part decoded from a suffix of width2 bytes only
SecondPartNear(input_, p, width, width2, mul) ==
  TailFrom(input_, p,
           Max(saturating_sub(Len(input_), width2), p.part1_len),
           Collected(input_, Max(saturating_sub(Len(input_), width2),
                                 p.part1_len), <<>>),
           width2 + (width % 2) - 1)

\* a second part that is one char shorter for an odd width
SecondPartOddShort(input_, p, width, width2, mul) ==
  TailFrom(input_, p,
           Max(saturating_sub(Len(input_), mul), p.part1_len),
           Collected(input_, Max(saturating_sub(Len(input_), mul), p.part1_len),
                     <<>>),
           width2 - (width % 2))

\* the second part, from let start2 on, mul being 4 * width2
SecondPart(input_, p, width, width2, mul) ==
  TailFrom(input_, p,
           Max(saturating_sub(Len(input_), mul), p.part1_len),
           Collected(input_, Max(saturating_sub(Len(input_), mul), p.part1_len),
                     <<>>),
           width2 + (width % 2) - 1)

\* 4 * width2 in usize: with overflow checks the multiplication panics
\* when the product is out of range, without them it wraps
Shortened(input_, p, width, width2, checks) ==
  IF 4 * width2 > MaxUsize /\ checks THEN ShownPanic
  ELSE SecondPart(input_, p, width, width2, (4 * width2) % (MaxUsize + 1))

PrettyWith(input_, p, width, width2, checks) ==
  IF width > 0 THEN Shortened(input_, p, width, width2, checks)
  ELSE Shown(coalesced(p.output), p.part1_len, Len(input_), FALSE,
              p.char_count)

PrettyClamped(input_, width, checks) ==
  PrettyWith(input_, FirstPart(input_, width > 0, width \div 2), width,
             width \div 2, checks)

\* pretty(input, width), checks telling whether the build has overflow
\* checks
pretty(input_, width, checks) == PrettyClamped(input_, Clamped(width), checks)

\* ------------------------------------------------------------------------
\* Formatting of items (Item::format, Atom::format, List::format,
\* Map::format)
\* ------------------------------------------------------------------------

\* the bytes that the model of the lexer writes as one-character strings,
\* and their numbers
Letters ==
  <<"(", ")", " ", ":", "\"", "\\", "#", "\n", "\t", "\r", "!", "1", "2",
    "4", "S", "T", "a", "b", "c", "e", "g", "k", "l", "n", "r", "t", "u",
    "v", "x", "0", "f", "i", "m", "o", "p", "q", "s", "y">>

Numbers ==
  <<40, 41, 32, 58, 34, 92, 35, 10, 9, 13, 33, 49, 50,
    52, 83, 84, 97, 98, 99, 101, 103, 107, 108, 110, 114, 116, 117,
    118, 120, 48, 102, 105, 109, 111, 112, 113, 115, 121>>

Code(c) == Numbers[CHOOSE i \in DOMAIN Letters : Letters[i] = c]

Chr(n) ==
  IF \E i \in DOMAIN Numbers : Numbers[i] = n
  THEN Letters[CHOOSE i \in DOMAIN Numbers : Numbers[i] = n]
  ELSE "?"

Codes(s) == [i \in DOMAIN s |-> Code(s[i])]

\* String::into_bytes of one char: its UTF-8 encoding
Utf8Bytes(c) ==
  IF c < 128 THEN <<c>>
  ELSE IF c < 2048 THEN <<192 + (c \div 64), 128 + (c % 64)>>
  ELSE IF c < 65536
    THEN <<224 + (c \div 4096), 128 + ((c \div 64) % 64), 128 + (c % 64)>>
  ELSE <<240 + (c \div 262144), 128 + ((c \div 4096) % 64),
         128 + ((c \div 64) % 64), 128 + (c % 64)>>

RECURSIVE into_bytes(_)
into_bytes(text) ==
  IF text = <<>> THEN <<>>
  ELSE Utf8Bytes(Head(text)) \o into_bytes(Tail(text))

\* the bytes of a String as the lexer's model writes them
Written(text) == [i \in DOMAIN into_bytes(text) |-> Chr(into_bytes(text)[i])]

\* .join(" ")
RECURSIVE Join(_)
Join(strs) ==
  IF strs = <<>> THEN <<>>
  ELSE IF Len(strs) = 1 THEN strs[1]
  ELSE strs[1] \o <<32>> \o Join(Tail(strs))

RECURSIVE format(_, _)
\* an entry whose value is rendered without the width
format_entryValueInFull(key, value, width) ==
  format(key, width) \o <<58, 32>> \o format(value, 0)

\* format_entry: "{key}: {value}"
format_entry(key, value, width) ==
  format(key, width) \o <<58, 32>> \o format(value, width)

format(item, width) ==
  IF item.t = "Atom" THEN pretty(Codes(item.b), width, FALSE).text
  ELSE IF item.t = "List"
    THEN <<40>> \o Join([i \in DOMAIN item.e |-> format(item.e[i], width)])
           \o <<41>>
  ELSE <<40>> \o Join([i \in DOMAIN item.e |->
                  format_entry(item.e[i][1], item.e[i][2], width)])
         \o <<41>>

\* ------------------------------------------------------------------------
\* Parser (parse.rs)
\* ------------------------------------------------------------------------

VARIABLES
  input,    \* the bytes given to lex() or parse()
  lx,       \* the AxpLexer: mode, offset, guard
  out,      \* the tokens the lexer has returned so far
  lexst,    \* collecting the token stream: "run", "done" or "panic"
  token,    \* Parser.token
  mode,     \* Parser.mode
  stack,    \* the activations of parse_compound, the innermost last
  result,   \* what parse() returned
  bytes,    \* the byte slice given to pretty()
  width,    \* the width given to pretty()
  shown     \* what pretty() or format() returned

VARIABLES
  expr,     \* the Item given to format, first, tail or evaluate
  run,      \* the call of evaluate.rs that is running
  calls,    \* the calls of evaluate.rs that wait for it, the innermost last
  outcome   \* the Item that first, tail or evaluate returned

vars ==
  <<input, lx, out, lexst, token, mode, stack, result, bytes, width, shown,
    expr, run, calls, outcome>>

\* the variables of an operation on an Item
ivars == <<expr, run, calls, outcome>>

\* no call of evaluate.rs is running
Idle == [fn |-> "none", item |-> nil, args |-> nil]

\* nothing returned yet
NotDone == [st |-> "none", item |-> nil]

\* no operation on an Item has begun
NoCall ==
  /\ expr = nil
  /\ run = Idle
  /\ calls = <<>>
  /\ outcome = NotDone

\* the variables of a call of pretty()
pvars == <<bytes, width, shown>>

\* the state of a Parser together with the tokens pulled so far
Pst(l, t, o, p) == [lx |-> l, token |-> t, out |-> o, panic |-> p]

\* self.token = self.lexer.next(), r being what the lexer returned
Pulled(p, r) ==
  Pst(r.lx, IF r.panic THEN Unwound ELSE r.tok,
      IF r.panic \/ r.tok = NoToken THEN p.out ELSE Append(p.out, r.tok),
      r.panic)

ParserNext(in, p) ==
  IF p.panic THEN p ELSE On(LAMBDA r : Pulled(p, r), AxpNext(in, p.lx))

RECURSIVE skip_ws(_, _)
skip_ws(in, p) ==
  IF ~p.panic /\ p.token.kind \in {"WhiteSpace", "Comment"}
  THEN On(LAMBDA q : skip_ws(in, q), ParserNext(in, p))
  ELSE p

Running == [st |-> "running", item |-> nil, msg |-> ""]

Ok(item) == [st |-> "Ok", item |-> item, msg |-> ""]

Err(msg) == [st |-> "Err", item |-> nil, msg |-> msg]

Panic(msg) == [st |-> "panic", item |-> nil, msg |-> msg]

\* the locals of an activation of parse_compound and where it stands
Unset == [t |-> "Unset"]

Frame(top) ==
  [item |-> nil, top |-> top, pc |-> "key", key |-> Unset, value |-> Unset]

Top == stack[Len(stack)]

SetTop(f) == [stack EXCEPT ![Len(stack)] = f]

\* return Ok(item) of the innermost activation: to parse() from the
\* outermost one, else into the key or value of the caller
Return(item) ==
  IF Len(stack) = 1
  THEN /\ stack' = <<>>
       /\ result' = Ok(item)
  ELSE LET caller == stack[Len(stack) - 1]
           rest == SubSeq(stack, 1, Len(stack) - 2)
       IN /\ result' = result
          /\ stack' = Append(rest,
               IF caller.pc = "keycall"
               THEN [caller EXCEPT !.key = item, !.pc = "colon"]
               ELSE [caller EXCEPT !.value = item, !.pc = "push"])

\* throw!, unreachable!: every activation is left
Fail(r) ==
  /\ stack' = <<>>
  /\ result' = r

\* a call of parse_compound from the position pc of the running activation
Call(pc) ==
  /\ stack' = Append(SetTop([Top EXCEPT !.pc = pc]), Frame(mode = "Top"))
  /\ mode' = "Normal"
  /\ result' = result

Keep(p) ==
  /\ lx' = p.lx
  /\ token' = p.token
  /\ out' = p.out

LexerPanic == Panic("unexpected result from lexer")

Here == Pst(lx, token, out, FALSE)

\* parse(): the first token, then parse_compound in mode Top
ParseWith(p) ==
  /\ Keep(p)
  /\ IF p.panic
     THEN /\ Fail(LexerPanic)
          /\ mode' = mode
     ELSE /\ stack' = <<Frame(mode = "Top")>>
          /\ mode' = "Normal"
          /\ result' = Running

Parse ==
  /\ result.st = "init"
  /\ lexst = "run"
  /\ out = <<>>
  /\ \E p \in {ParserNext(input, Pst(lex, NoToken, <<>>, FALSE))} :
       ParseWith(p)
  /\ UNCHANGED <<input, lexst>>
  /\ UNCHANGED pvars
  /\ UNCHANGED ivars

\* the arm of the match on the token in key position
KeyArm(k, top) ==
  CASE k = "Bare" -> "bare"
    [] k = "Open" -> "open"
    [] k = "Quoted" -> "quoted"
    [] k \in {"Esc", "WhiteSpace", "Comment"} -> "unreachable"
    [] k = "Bad" -> "bad"
    [] k = "Colon" -> "colon"
    [] k = "Close" /\ top -> "close at top"
    [] k = "Close" /\ ~top -> "return"
    [] k = "None" /\ top -> "return"
    [] k = "None" /\ ~top -> "end"

\* parse_quoted
parse_quoted == Err("todo")

\* the call of parse_compound(parser.next_fluent()), q being the parser
\* after next_fluent
KeyOpen(q) ==
  /\ Keep(q)
  /\ IF q.panic THEN Fail(LexerPanic) /\ mode' = mode
     ELSE Call("keycall")

\* the match on the token in key position, p being the parser after skip_ws
KeyMatch(p, arm) ==
  CASE p.panic -> Keep(p) /\ Fail(LexerPanic) /\ mode' = mode
    [] ~p.panic /\ arm = "bare" ->
         /\ Keep(p)
         /\ stack' = SetTop([Top EXCEPT !.key = new_atom(p.token.s),
                                        !.pc = "colon"])
         /\ UNCHANGED <<mode, result>>
    [] ~p.panic /\ arm = "open" ->
         \E q \in {ParserNext(input, p)} : KeyOpen(q)
    [] ~p.panic /\ arm = "quoted" ->
         Keep(p) /\ Fail(parse_quoted) /\ mode' = mode
    [] ~p.panic /\ arm = "unreachable" ->
         Keep(p) /\ Fail(Panic("unreachable")) /\ mode' = mode
    [] ~p.panic /\ arm = "bad" ->
         Keep(p) /\ Fail(Err("bad")) /\ mode' = mode
    [] ~p.panic /\ arm = "colon" ->
         Keep(p) /\ Fail(Err("unexpected :")) /\ mode' = mode
    [] ~p.panic /\ arm = "close at top" ->
         Keep(p) /\ Fail(Err("unexpected )")) /\ mode' = mode
    [] ~p.panic /\ arm = "return" ->
         Keep(p) /\ Return(Top.item) /\ mode' = mode
    [] ~p.panic /\ arm = "end" ->
         Keep(p) /\ Fail(Err("unexpected end")) /\ mode' = mode

KeyWith(p) == KeyMatch(p, KeyArm(p.token.kind, Top.top))

\* get key, get element or close compound
KeyStep ==
  /\ result.st = "running"
  /\ Top.pc = "key"
  /\ \E p \in {skip_ws(input, Here)} : KeyWith(p)
  /\ UNCHANGED <<input, lexst>>
  /\ UNCHANGED pvars
  /\ UNCHANGED ivars

\* a colon turns a list into a map whether or not the list is empty
ColonArmAnyList(k, item) ==
  CASE k = "Colon" /\ item.t = "List" -> "mutate to map"
    [] item.t = "List" /\ k # "Colon" -> "push"
    [] item.t = "Map" /\ k = "Colon" -> "colon"
    [] item.t = "Map" /\ k \notin {"Colon", "None"} -> "unexpected"
    [] item.t = "Map" /\ k = "None" -> "end"

\* the arm of the match on the token after the key and the item so far
ColonArm(k, item) ==
  CASE k = "Colon" /\ item.t = "List" /\ is_empty(item) -> "mutate to map"
    [] item.t = "List" /\ ~(k = "Colon" /\ is_empty(item)) -> "push"
    [] item.t = "Map" /\ k = "Colon" -> "colon"
    [] item.t = "Map" /\ k \notin {"Colon", "None"} -> "unexpected"
    [] item.t = "Map" /\ k = "None" -> "end"

\* the match on the token after the key, p being the parser after skip_ws
ColonMatch(p, arm) ==
  /\ Keep(p)
  /\ CASE p.panic -> Fail(LexerPanic)
       [] ~p.panic /\ arm = "mutate to map" ->
            /\ stack' = SetTop([Top EXCEPT !.item = new_map(<<>>),
                                           !.pc = "value"])
            /\ result' = result
       [] ~p.panic /\ arm = "push" ->
            /\ stack' = SetTop([Top EXCEPT
                 !.item = ListPush(Top.item, Top.key), !.pc = "key"])
            /\ result' = result
       [] ~p.panic /\ arm = "colon" ->
            /\ stack' = SetTop([Top EXCEPT !.pc = "value"])
            /\ result' = result
       [] ~p.panic /\ arm = "unexpected" -> Fail(Err("unexpected token"))
       [] ~p.panic /\ arm = "end" -> Fail(Err("unexpected end"))

ColonWith(p) == ColonMatch(p, ColonArm(p.token.kind, Top.item))

\* for lists push and continue or for maps handle colon
ColonStep ==
  /\ result.st = "running"
  /\ Top.pc = "colon"
  /\ \E p \in {On(LAMBDA q : skip_ws(input, q), ParserNext(input, Here))} :
       ColonWith(p)
  /\ UNCHANGED <<input, lexst, mode>>
  /\ UNCHANGED pvars
  /\ UNCHANGED ivars

\* a Bad token in value position is taken like a Bare token
ValueArmBadAsBare(k) ==
  CASE k \in {"Bare", "Bad"} -> "bare"
    [] k = "Open" -> "open"
    [] k = "Quoted" -> "quoted"
    [] k \in {"Esc", "WhiteSpace", "Comment"} -> "unreachable"
    [] k = "Colon" -> "colon"
    [] k = "Close" -> "close"
    [] k = "None" -> "end"

\* the arm of the match on the token in value position
ValueArm(k) ==
  CASE k = "Bare" -> "bare"
    [] k = "Open" -> "open"
    [] k = "Quoted" -> "quoted"
    [] k \in {"Esc", "WhiteSpace", "Comment"} -> "unreachable"
    [] k = "Bad" -> "bad"
    [] k = "Colon" -> "colon"
    [] k = "Close" -> "close"
    [] k = "None" -> "end"

\* the match on the token in value position, p being the parser after
\* skip_ws
ValueMatch(p, arm) ==
  /\ Keep(p)
  /\ CASE p.panic -> Fail(LexerPanic) /\ mode' = mode
       [] ~p.panic /\ arm = "bare" ->
            /\ stack' = SetTop([Top EXCEPT !.value = new_atom(p.token.s),
                                           !.pc = "push"])
            /\ UNCHANGED <<mode, result>>
       [] ~p.panic /\ arm = "open" -> Call("valcall")
       [] ~p.panic /\ arm = "quoted" -> Fail(parse_quoted) /\ mode' = mode
       [] ~p.panic /\ arm = "unreachable" ->
            Fail(Panic("unreachable")) /\ mode' = mode
       [] ~p.panic /\ arm = "bad" -> Fail(Err("bad")) /\ mode' = mode
       [] ~p.panic /\ arm = "colon" -> Fail(Err("unexpected :")) /\ mode' = mode
       [] ~p.panic /\ arm = "close" -> Fail(Err("unexpected )")) /\ mode' = mode
       [] ~p.panic /\ arm = "end" -> Fail(Err("unexpected end")) /\ mode' = mode

ValueWith(p) == ValueMatch(p, ValueArm(p.token.kind))

\* maps only: get value
ValueStep ==
  /\ result.st = "running"
  /\ Top.pc = "value"
  /\ \E p \in {On(LAMBDA q : skip_ws(input, q), ParserNext(input, Here))} :
       ValueWith(p)
  /\ UNCHANGED <<input, lexst>>
  /\ UNCHANGED pvars
  /\ UNCHANGED ivars

\* a push of the entry without the parser.next() that follows it
PushWithoutNext(p) ==
  /\ Keep(Here)
  /\ CASE Top.item.t # "Map" -> Fail(Panic("not a map"))
       [] Top.item.t = "Map" ->
            /\ stack' = SetTop([Top EXCEPT
                 !.item = MapPush(Top.item, Top.key, Top.value),
                 !.pc = "key"])
            /\ result' = result

\* map.push(key, value), p being the parser after parser.next()
PushWith(p) ==
  /\ Keep(p)
  /\ CASE Top.item.t # "Map" -> Fail(Panic("not a map"))
       [] Top.item.t = "Map" /\ p.panic -> Fail(LexerPanic)
       [] Top.item.t = "Map" /\ ~p.panic ->
            /\ stack' = SetTop([Top EXCEPT
                 !.item = MapPush(Top.item, Top.key, Top.value),
                 !.pc = "key"])
            /\ result' = result

\* push entry, then parser.next()
PushEntry ==
  /\ result.st = "running"
  /\ Top.pc = "push"
  /\ \E p \in {ParserNext(input, Here)} : PushWith(p)
  /\ UNCHANGED <<input, lexst, mode>>
  /\ UNCHANGED pvars
  /\ UNCHANGED ivars

\* ------------------------------------------------------------------------
\* Pulling the whole token stream: lex(input).collect()
\* ------------------------------------------------------------------------

\* one iteration of the loop of AxpLexer::next, r being its outcome
LexWith(r) ==
  /\ lx' = r.lx
  /\ lexst' = IF r.panic THEN "panic"
              ELSE IF r.ret /\ r.tok = NoToken THEN "done" ELSE "run"
  /\ out' = IF r.ret /\ ~r.panic /\ r.tok # NoToken
            THEN Append(out, r.tok) ELSE out

\* an iteration in Base mode
LexBase ==
  /\ lexst = "run"
  /\ result.st = "init"
  /\ lx.mode = "Base"
  /\ LexWith(NextBase(input, lx))
  /\ UNCHANGED <<input, token, mode, stack, result>>
  /\ UNCHANGED pvars
  /\ UNCHANGED ivars

\* an iteration in Comment mode
LexComment ==
  /\ lexst = "run"
  /\ result.st = "init"
  /\ lx.mode = "Comment"
  /\ LexWith(NextComment(input, lx))
  /\ UNCHANGED <<input, token, mode, stack, result>>
  /\ UNCHANGED pvars
  /\ UNCHANGED ivars

\* an iteration in Quoted mode
LexQuoted ==
  /\ lexst = "run"
  /\ result.st = "init"
  /\ lx.mode = "Quoted"
  /\ LexWith(NextQuoted(input, lx))
  /\ UNCHANGED <<input, token, mode, stack, result>>
  /\ UNCHANGED pvars
  /\ UNCHANGED ivars

\* ------------------------------------------------------------------------
\* Specifications
\* ------------------------------------------------------------------------

\* the byte strings over S of at most n bytes
SeqsUpTo(S, n) == UNION {[1..k -> S] : k \in 0..n}

Inputs ==
  SeqsUpTo(Alphabet, MaxLen) \cup SeqsUpTo(Structural, MaxDeep) \cup Scenarios

Init ==
  /\ input \in Inputs
  /\ lx = lex
  /\ out = <<>>
  /\ lexst = "run"
  /\ token = NoToken
  /\ mode = "Top"
  /\ stack = <<>>
  /\ result = [st |-> "init", item |-> nil, msg |-> ""]
  /\ bytes = <<>>
  /\ width = 0
  /\ shown = NotShown
  /\ NoCall

Next == Parse \/ KeyStep \/ ColonStep \/ ValueStep \/ PushEntry

Spec == Init /\ [][Next]_vars

NextLex == LexBase \/ LexComment \/ LexQuoted

SpecLex == Init /\ [][NextLex]_vars

\* parse() scheduled until it returns: the byte strings over Alphabet of at
\* most MaxTerm bytes and the scenarios
MaxTerm == 3

InitTerm ==
  /\ input \in SeqsUpTo(Alphabet, MaxTerm) \cup Scenarios
  /\ lx = lex
  /\ out = <<>>
  /\ lexst = "run"
  /\ token = NoToken
  /\ mode = "Top"
  /\ stack = <<>>
  /\ result = [st |-> "init", item |-> nil, msg |-> ""]
  /\ bytes = <<>>
  /\ width = 0
  /\ shown = NotShown
  /\ NoCall

\* a call runs on: no step of parse() waits for anything
SpecTerm == InitTerm /\ [][Next]_vars /\ WF_vars(Next)

\* the calls of pretty(): every byte slice made of at most MaxUnits units of
\* Units or of at most MaxRun units of RunUnits, and the slices of the tests
\* of pretty.rs
MaxUnits == 3

Units ==
  { <<97>>, <<1>>, <<255>>, <<159>>, <<195, 164>>, <<240, 159, 146, 169>> }

MaxRun == 7

RunUnits == { <<97>>, <<255>>, <<240, 159, 146, 169>> }

RECURSIVE Flat(_)
Flat(units) == IF units = <<>> THEN <<>> ELSE Head(units) \o Flat(Tail(units))

Slices ==
  { <<48, 49, 50, 1, 52, 53, 54, 55, 56, 57, 255>>,
    <<110, 111, 116, 32, 117, 116, 102, 56, 240, 128, 45>>,
    <<97, 98, 99, 100, 0, 101, 102, 254, 103, 104>>,
    <<97, 98, 1, 99, 100, 101, 102, 103, 104>>,
    <<32, 10>>, <<92, 13, 9, 127>>, <<240, 159, 146>>,
    <<97, 226, 160, 164, 98>>,
    <<97, 98, 99, 100, 101, 102, 103, 104, 105, 106, 107, 108, 109, 110>>,
    <<195, 182, 100, 101, 32, 83, 99, 104, 101, 105, 195, 159, 101, 32,
      240, 159, 146, 169, 32, 195, 169, 116, 195, 169, 32, 195, 160, 32,
      76, 105, 32, 230, 157, 142>>,
    <<97, 97, 97, 195, 169, 195, 169, 195, 169, 195, 169, 195, 169, 195,
      169, 97>>,
    <<97, 97, 97, 230, 157, 142, 230, 157, 142, 230, 157, 142, 230, 157,
      142, 97, 97>>,
    <<97, 97, 97, 240, 159, 146, 169, 255, 240, 159, 146, 169, 255, 240,
      159, 146, 169>> }

PrettyInputs ==
  {Flat(u) : u \in SeqsUpTo(Units, MaxUnits)}
    \cup {Flat(u) : u \in SeqsUpTo(RunUnits, MaxRun)} \cup Slices

\* the widths asked for: none, one that is clamped, 6..MaxWidth and the
\* greatest usize
MaxWidth == 9

Widths == {0, 3} \cup (6..MaxWidth) \cup {14, MaxUsize}

InitPretty ==
  /\ input = <<>>
  /\ lx = lex
  /\ out = <<>>
  /\ lexst = "run"
  /\ token = NoToken
  /\ mode = "Top"
  /\ stack = <<>>
  /\ result = [st |-> "init", item |-> nil, msg |-> ""]
  /\ bytes \in PrettyInputs
  /\ width \in Widths
  /\ shown = NotShown
  /\ NoCall

\* PrettyUtf8::pretty
PrettyFull ==
  /\ shown = NotShown
  /\ width = 0
  /\ \E checks \in BOOLEAN : shown' = pretty(bytes, 0, checks)
  /\ UNCHANGED <<input, lx, out, lexst, token, mode, stack, result>>
  /\ UNCHANGED <<bytes, width>>
  /\ UNCHANGED ivars

\* PrettyUtf8::pretty_short
PrettyShort ==
  /\ shown = NotShown
  /\ \E checks \in BOOLEAN : shown' = pretty(bytes, width, checks)
  /\ UNCHANGED <<input, lx, out, lexst, token, mode, stack, result>>
  /\ UNCHANGED <<bytes, width>>
  /\ UNCHANGED ivars

NextPretty == PrettyFull \/ PrettyShort

SpecPretty == InitPretty /\ [][NextPretty]_vars

\* the calls of pretty() without a width: every byte slice made of at most
\* MaxFull units of FullUnits, the bytes that escapes are written with
\* among them, and slices of control characters and of text that reads
\* like an escape
MaxFull == 4

FullUnits ==
  { <<92>>, <<110>>, <<10>>, <<255>>, <<250>>, <<102>>, <<97>>, <<59>> }

FullSlices ==
  { <<92, 85, 102, 102>>, <<92, 85, 102, 102, 59>>, <<255, 59, 59>>,
    <<92, 120, 48, 49>>, <<1>>, <<92, 48>>, <<0>>, <<0, 49>>,
    <<255, 102, 97, 59>>, <<255, 250, 59, 255>>,
    <<127>>, <<27>>, <<9, 13>>, <<194, 128>>, <<194, 133>>,
    <<97, 194, 159, 98>>, <<194, 160>>, <<226, 128, 168>> }

FullInputs ==
  {Flat(u) : u \in SeqsUpTo(FullUnits, MaxFull)} \cup FullSlices \cup Slices

InitFull ==
  /\ input = <<>>
  /\ lx = lex
  /\ out = <<>>
  /\ lexst = "run"
  /\ token = NoToken
  /\ mode = "Top"
  /\ stack = <<>>
  /\ result = [st |-> "init", item |-> nil, msg |-> ""]
  /\ bytes \in FullInputs
  /\ width = 0
  /\ shown = NotShown
  /\ NoCall

NextFull == PrettyFull

SpecFull == InitFull /\ [][NextFull]_vars

\* ------------------------------------------------------------------------
\* Operations on an Item: Item::format, List::first, List::tail
\* (item.rs, list.rs, map.rs) and evaluate (evaluate.rs)
\* ------------------------------------------------------------------------

Done(item) == [st |-> "Ok", item |-> item]

\* the stack of the thread is exhausted: the process aborts
Overflow == [st |-> "overflow", item |-> nil]

\* a call of fn that is about to run
Active(fn, item, args) == [fn |-> fn, item |-> item, args |-> args]

\* a call that waits for the call it made
Waiting(fn, list) == [fn |-> fn, list |-> list]

\* the names of the primitives: primitives![if, print, eval, first, tail,
\* quote]
NameIf == <<"i", "f">>

NamePrint == <<"p", "r", "i", "n", "t">>

NameEval == <<"e", "v", "a", "l">>

NameFirst == <<"f", "i", "r", "s", "t">>

NameTail == <<"t", "a", "i", "l">>

NameQuote == <<"q", "u", "o", "t", "e">>

MapAsOperator ==
  <<"m", "a", "p", "_", "a", "s", "_", "o", "p", "e", "r", "a", "t", "o", "r">>

prim_quote(args) == args

prim_first(args) == first(args)

prim_tail(args) == tail(args)

\* an if that takes the branches the other way round
prim_ifSwapped(args) ==
  IF is_empty(first(args)) THEN first(tail(args))
  ELSE first(tail(tail(args)))

prim_if(args) ==
  IF is_empty(first(args)) THEN first(tail(tail(args)))
  ELSE first(tail(args))

\* prim_print writes the arguments to the standard output
prim_print(args) == nil

\* primitives.get(name).map_or(Item::nil(), |primitive| primitive(&args))
\* for every name but eval
Primitive(name, args) ==
  CASE name = NameIf -> prim_if(args)
    [] name = NamePrint -> prim_print(args)
    [] name = NameFirst -> prim_first(args)
    [] name = NameTail -> prim_tail(args)
    [] name = NameQuote -> prim_quote(args)
    [] OTHER -> nil

\* the depth of calls that the stack of the thread has room for
MaxCalls == 6

\* the formatting, the decomposition or the evaluation has not begun
Fresh == outcome = NotDone /\ run = Idle /\ shown = NotShown

\* Item::format
Format ==
  /\ Fresh
  /\ shown' = [NotShown EXCEPT !.st = "Ok", !.text = format(expr, width)]
  /\ UNCHANGED <<input, lx, out, lexst, token, mode, stack, result>>
  /\ UNCHANGED <<bytes, width>>
  /\ UNCHANGED ivars

\* List::first
First ==
  /\ Fresh
  /\ expr.t = "List"
  /\ outcome' = Done(first(expr))
  /\ UNCHANGED <<input, lx, out, lexst, token, mode, stack, result>>
  /\ UNCHANGED pvars
  /\ UNCHANGED <<expr, run, calls>>

\* List::tail
ListTail ==
  /\ Fresh
  /\ expr.t = "List"
  /\ outcome' = Done(tail(expr))
  /\ UNCHANGED <<input, lx, out, lexst, token, mode, stack, result>>
  /\ UNCHANGED pvars
  /\ UNCHANGED <<expr, run, calls>>

\* evaluate
Evaluate ==
  /\ Fresh
  /\ CASE expr.t = "Atom" ->
            /\ run' = Active("evaluate_atom", expr, nil)
            /\ outcome' = outcome
       [] expr.t = "List" ->
            /\ run' = Active("evaluate_list", expr, nil)
            /\ outcome' = outcome
       [] expr.t = "Map" ->
            /\ run' = run
            /\ outcome' = Done(expr)
  /\ UNCHANGED <<input, lx, out, lexst, token, mode, stack, result>>
  /\ UNCHANGED pvars
  /\ UNCHANGED <<expr, calls>>

\* a call that finds no room on the stack
Exhausted ==
  /\ outcome' = Overflow
  /\ UNCHANGED <<run, calls>>

\* evaluate_list calls operator(&list.first()) and waits for the atom
EvaluateList ==
  /\ outcome = NotDone
  /\ run.fn = "evaluate_list"
  /\ IF Len(calls) >= MaxCalls THEN Exhausted
     ELSE /\ calls' = Append(calls, Waiting("evaluate_list", run.item))
          /\ run' = Active("operator", first(run.item), nil)
          /\ outcome' = outcome
  /\ UNCHANGED <<input, lx, out, lexst, token, mode, stack, result>>
  /\ UNCHANGED pvars
  /\ UNCHANGED expr

\* the atom that operator returns for an item that is no list
OperatorAtom(op) ==
  IF op.t = "Atom" THEN op ELSE new_atom(MapAsOperator)

\* operator: for a list it calls evaluate_list and waits for the item, to
\* go on with operator of that item; an atom goes to the evaluate_list that
\* waits for it, which goes on with evaluate_atom(atom, list.tail())
Operator ==
  /\ outcome = NotDone
  /\ run.fn = "operator"
  /\ IF run.item.t = "List"
     THEN IF Len(calls) >= MaxCalls THEN Exhausted
          ELSE /\ calls' = Append(calls, Waiting("operator", nil))
               /\ run' = Active("evaluate_list", run.item, nil)
               /\ outcome' = outcome
     ELSE /\ calls' = SubSeq(calls, 1, Len(calls) - 1)
          /\ run' = Active("evaluate_atom", OperatorAtom(run.item),
                           tail(calls[Len(calls)].list))
          /\ outcome' = outcome
  /\ UNCHANGED <<input, lx, out, lexst, token, mode, stack, result>>
  /\ UNCHANGED pvars
  /\ UNCHANGED expr

\* the item v returns from evaluate_atom and from the evaluate_list that
\* called it: to the caller of evaluate, or to the operator that waits
ReturnItem(v) ==
  IF calls = <<>>
  THEN /\ outcome' = Done(v)
       /\ run' = Idle
       /\ calls' = calls
  ELSE /\ outcome' = outcome
       /\ run' = Active("operator", v, nil)
       /\ calls' = SubSeq(calls, 1, Len(calls) - 1)

\* evaluate_atom: prim_eval is evaluate_list, every other primitive
\* returns at once, and so does a name that is no primitive
EvaluateAtom ==
  /\ outcome = NotDone
  /\ run.fn = "evaluate_atom"
  /\ IF run.item.b = NameEval
     THEN /\ run' = Active("evaluate_list", run.args, nil)
          /\ UNCHANGED <<calls, outcome>>
     ELSE ReturnItem(Primitive(run.item.b, run.args))
  /\ UNCHANGED <<input, lx, out, lexst, token, mode, stack, result>>
  /\ UNCHANGED pvars
  /\ UNCHANGED expr

\* the Items given to the operations: the atoms, the lists of at most
\* MaxArgs leaves, the lists that begin with a list, and the Items of the
\* doc tests of item.rs, list.rs and evaluate.rs
MaxArgs == 3

Names ==
  { NameIf, NameEval, NameQuote, NameFirst, NameTail, NamePrint, <<"a">>,
    <<>> }

Leaves ==
  {new_atom(n) : n \in Names}
    \cup {nil, new_map(<< <<new_atom(<<"k">>), new_atom(<<"v">>)>> >>)}

Heads ==
  {new_list(s) : s \in SeqsUpTo({new_atom(NameEval), new_atom(NameQuote),
                                 new_atom(NameFirst), new_atom(<<"a">>),
                                 nil}, 2)}

Shapes ==
  { new_list(<<new_atom(NameIf), new_atom(<<"t", "r", "u", "e">>),
               new_atom(<<"a">>)>>),
    new_list(<<new_atom(<<"a">>), nil>>),
    new_list(<<new_atom(<<"a", "t", "o", "m">>), nil>>),
    new_map(<< <<new_atom(<<"k", "e", "y">>),
                 new_atom(<<"i", "t", "e", "m">>)>>,
               <<new_atom(<<"l", "i", "s", "t">>),
                 new_list(<<new_atom(<<"a">>), nil>>)>> >>),
    new_map(<<>>),
    new_map(<< <<nil, new_map(<<>>)>> >>),
    new_atom(<<"a", "b", "c", "a", "b", "c", "a", "b", "c">>),
    new_list(<<new_atom(<<"a", "b", "c", "a", "b", "c", "a", "b", "c">>),
               new_map(<< <<new_atom(<<"k">>),
                 new_atom(<<"a", "b", "c", "a", "b", "c", "a", "b", "c">>)>> >>)>>),
    new_list(<<new_atom(NameIf), nil, new_atom(<<"a">>),
               new_list(<<new_atom(NameEval), new_atom(<<"a">>)>>)>>),
    new_list(<<new_atom(NameIf), new_atom(<<>>), new_atom(<<"a">>),
               new_atom(<<"k">>)>>),
    new_list(<<new_atom(NameEval), new_atom(NameEval), new_atom(NameEval),
               new_atom(NameEval)>>),
    new_list(<<new_atom(NameEval), new_atom(NameEval), new_atom(NameQuote),
               new_atom(NameEval), new_atom(<<"a">>)>>),
    new_list(<<new_list(<<new_list(<<new_atom(NameFirst),
               new_atom(NameQuote)>>), new_atom(NameIf)>>),
               new_atom(<<"a">>), new_atom(<<"a">>)>>) }

Items ==
  Leaves
    \cup {new_list(s) : s \in SeqsUpTo(Leaves, MaxArgs)}
    \cup {new_list(<<h>> \o s) : h \in Heads, s \in SeqsUpTo(Leaves, 1)}
    \cup Shapes

\* the widths given to format: none, and one that shortens a long atom
ItemWidths == {0, 7}

InitItem ==
  /\ input = <<>>
  /\ lx = lex
  /\ out = <<>>
  /\ lexst = "run"
  /\ token = NoToken
  /\ mode = "Top"
  /\ stack = <<>>
  /\ result = [st |-> "init", item |-> nil, msg |-> ""]
  /\ bytes = <<>>
  /\ width \in ItemWidths
  /\ shown = NotShown
  /\ expr \in Items
  /\ run = Idle
  /\ calls = <<>>
  /\ outcome = NotDone

NextItem ==
  \/ Format \/ First \/ ListTail
  \/ Evaluate \/ EvaluateList \/ Operator \/ EvaluateAtom

SpecItem == InitItem /\ [][NextItem]_vars

\* a call of evaluate that has begun goes on: the thread runs it until it
\* returns or the stack is exhausted
EvalStep == EvaluateList \/ Operator \/ EvaluateAtom

SpecEval == InitItem /\ [][NextItem]_vars /\ WF_vars(EvalStep)

\* ------------------------------------------------------------------------
\* Vocabulary of the properties
\* ------------------------------------------------------------------------

Returned == result.st \in {"Ok", "Err", "panic"}

Significant(t) == t.kind \notin {"WhiteSpace", "Comment"}

Sig(toks) == SelectSeq(toks, Significant)

TopOf(stk) == stk[Len(stk)]

Count(in, b, n) == Cardinality({j \in 1..n : in[j] = b})

\* every ) closes an earlier ( and every ( is closed
Balanced(in) ==
  /\ \A n \in 1..Len(in) : Count(in, ")", n) <= Count(in, "(", n)
  /\ Count(in, ")", Len(in)) = Count(in, "(", Len(in))

CountKind(toks, k, n) == Cardinality({j \in 1..n : toks[j].kind = k})

TokBalanced(toks) ==
  /\ \A n \in 1..Len(toks) : CountKind(toks, "Close", n) <= CountKind(toks, "Open", n)
  /\ CountKind(toks, "Close", Len(toks)) = CountKind(toks, "Open", Len(toks))

\* only bare-word bytes, white space and parentheses, no word over the cap
PlainBytes(in) ==
  /\ \A i \in 1..Len(in) : in[i] \notin {":", "#", "\\", "\""}
  /\ \A i \in 1..Len(in) : RunNot(in, NotBareBytes, i, RunCap + 1) <= RunCap

\* A reader of words and parentheses, byte by byte: open is the lists that
\* are not closed yet, the innermost last, word the bytes of the word so far.
Flush(open, word) ==
  IF word = <<>> THEN open
  ELSE [open EXCEPT ![Len(open)] = Append(@, new_atom(word))]

CloseList(open) ==
  LET n == Len(open)
  IN [SubSeq(open, 1, n - 1) EXCEPT ![n - 1] = Append(@, new_list(open[n]))]

RECURSIVE ReadLists(_, _, _, _)
ReadLists(in, i, open, word) ==
  IF i > Len(in) THEN new_list(Flush(open, word)[1])
  ELSE IF in[i] = "(" THEN ReadLists(in, i + 1, Append(Flush(open, word), <<>>), <<>>)
  ELSE IF in[i] = ")" THEN ReadLists(in, i + 1, CloseList(Flush(open, word)), <<>>)
  ELSE IF in[i] \in WhiteSpaceBytes THEN ReadLists(in, i + 1, Flush(open, word), <<>>)
  ELSE ReadLists(in, i + 1, open, Append(word, in[i]))

\* key : value, key : value, ... with bare words as keys and values
FlatMap(sig) ==
  /\ Len(sig) >= 3
  /\ Len(sig) % 3 = 0
  /\ \A i \in 1..Len(sig) :
       sig[i].kind = (IF i % 3 = 2 THEN "Colon" ELSE "Bare")

PairsOf(sig) ==
  [i \in 1..(Len(sig) \div 3) |->
     <<new_atom(sig[3 * i - 2].s), new_atom(sig[3 * i].s)>>]

RECURSIVE TotalLen(_)
TotalLen(toks) ==
  IF toks = <<>> THEN 0 ELSE Len(Head(toks).s) + TotalLen(Tail(toks))

\* ------------------------------------------------------------------------
\* Properties
\* ------------------------------------------------------------------------

\* C1: pulling the tokens of any input until the stream ends never reaches
\* an unreachable! arm of AxpLexer::next (no mode lexer reports a byte that
\* no pattern matches).
C1_LexNeverPanics == lexst # "panic"

\* C2: an input of bare words and balanced parentheses, without a colon,
\* parses to Ok(List) with one Atom per word and one nested List per
\* parenthesized group, in input order.
C2_BareListParsed ==
  (Returned /\ PlainBytes(input) /\ Balanced(input))
    => result = Ok(ReadLists(input, 1, <<<<>>>>, <<>>))

C2_Witness ==
  /\ PlainBytes(input) /\ Balanced(input)
  /\ result.st = "Ok"
  /\ Len(result.item.e) >= 2
  /\ \E i, j \in 1..Len(result.item.e) :
       /\ i < j
       /\ result.item.e[i].t = "List" /\ result.item.e[i].e # <<>>
       /\ result.item.e[j].t = "Atom"

MapPairsOf(l, sig, inner) ==
  (Returned /\ ~l.panic) =>
    /\ FlatMap(sig) => result = Ok(new_map(PairsOf(sig)))
    /\ (/\ Len(sig) >= 2
        /\ sig[1].kind = "Open" /\ sig[Len(sig)].kind = "Close"
        /\ FlatMap(inner))
         => result = Ok(new_list(<<new_map(PairsOf(inner))>>))

Inner(sig) == SubSeq(sig, 2, Len(sig) - 1)

MapPairsSig(l, sig) == MapPairsOf(l, sig, Inner(sig))

MapPairsLexed(l) == MapPairsSig(l, Sig(l.toks))

\* C3: where the first element of a still-empty compound is followed by a
\* colon, a Map is built: every key: value pair is appended in input order
\* and pairs with equal keys are all retained, at top level and inside
\* parentheses.
C3_MapPairsInOrder == MapPairsLexed(LexAll(input))

C3_Witness ==
  /\ result.st = "Ok"
  /\ result.item.t = "Map"
  /\ Len(result.item.e) = 2
  /\ result.item.e[1][1] = result.item.e[2][1]
  /\ result.item.e[1][2] # result.item.e[2][2]

\* C4: a parenthesized compound in value position is stored as the nested
\* item itself: parse(b"(k: (x))") is Ok(List[Map[(Atom k, List[Atom x])]]).
C4_ValueCompound ==
  (Returned /\ input = <<"(", "k", ":", " ", "(", "x", ")", ")">>)
    => result = Ok(new_list(<<new_map(<<
         <<new_atom(<<"k">>), new_list(<<new_atom(<<"x">>)>>)>> >>)>>))

QuotedToAtom(l) ==
  (/\ Returned /\ ~l.panic
   /\ Len(input) >= 2 /\ input[1] = "\""
   /\ l.toks # <<>>
   /\ \A i \in 1..Len(l.toks) : l.toks[i].kind \in {"Quoted", "Esc"}
   /\ TotalLen(l.toks) + 2 = Len(input))
    => /\ result.st = "Ok"
       /\ Len(result.item.e) = 1
       /\ result.item.e[1].t = "Atom"

\* C5: an input that is one well-formed quoted string (an opener, Quoted
\* and Esc tokens, a closer) parses to Ok with a single Atom.
C5_QuotedParsesToAtom == QuotedToAtom(LexAll(input))

KindKept ==
  \A d \in 1..Len(stack) :
    d <= Len(stack') =>
      /\ stack[d].item.t = "Map" => stack'[d].item.t = "Map"
      /\ (stack[d].item.t = "List" /\ stack[d].item.e # <<>>)
           => stack'[d].item.t = "List"

ColonAfterElementFails ==
  (/\ result.st = "running"
   /\ TopOf(stack).pc = "key"
   /\ TopOf(stack).item.t = "List" /\ TopOf(stack).item.e # <<>>
   /\ token.kind = "Colon")
    => result'.st = "Err"

MapKeyNeedsColon ==
  (/\ result.st = "running"
   /\ TopOf(stack).pc = "colon"
   /\ TopOf(stack).item.t = "Map"
   /\ token'.kind \notin {"Colon", "Unwound"})
    => result'.st = "Err"

\* C6: the kind of a compound never changes once it is a Map or a List
\* with an element; a colon where the next element of such a List is
\* expected makes parse return Err, and so does anything but a colon after
\* a key of a Map.
C6_KindDecidedOnce ==
  [][KindKept /\ ColonAfterElementFails /\ MapKeyNeedsColon]_vars

C6_Witness ==
  /\ result = Err("unexpected :")
  /\ Len(Sig(out)) >= 3
  /\ Sig(out)[1].kind = "Bare"
  /\ Sig(out)[2].kind = "Bare"
  /\ Sig(out)[Len(Sig(out))].kind = "Colon"

ValueMissingFails ==
  (/\ result.st = "running"
   /\ TopOf(stack).pc = "value"
   /\ token'.kind \in {"Close", "Colon", "Bad", "None"})
    => /\ result'.st = "Err"
       /\ stack' = <<>>

NoUnsetPair ==
  \A d \in 1..Len(stack) :
    stack[d].item.t = "Map" =>
      \A i \in 1..Len(stack[d].item.e) :
        /\ stack[d].item.e[i][1] # Unset
        /\ stack[d].item.e[i][2] # Unset

\* C7: after the colon of a Map, a Close, a Colon, a Bad token or the end
\* of the input in value position makes parse return Err, and no pair is
\* stored whose key or value was never parsed.
C7_ValueRequired == [][ValueMissingFails]_vars /\ []NoUnsetPair

C7_Witness ==
  /\ result = Err("unexpected )")
  /\ Len(Sig(out)) = 4
  /\ Sig(out)[1].kind = "Open"
  /\ Sig(out)[2].kind = "Bare"
  /\ Sig(out)[3].kind = "Colon"
  /\ Sig(out)[4].kind = "Close"

\* C8: parse returns Ok only if the parentheses of the input are balanced
\* (a ) without a matching ( and an unclosed ( both give Err).
C8_OkOnlyIfBalanced == result.st = "Ok" => TokBalanced(Sig(out))

BadGivesErr(l) ==
  (/\ Returned /\ ~l.panic
   /\ \E i \in 1..Len(l.toks) : l.toks[i].kind = "Bad")
    => result.st = "Err"

\* C9: whenever the token stream of the input contains a Bad token, parse
\* returns Err.
C9_BadAlwaysErr == BadGivesErr(LexAll(input))

\* C10: parse returns Ok or Err for every token stream of the tokenizer:
\* no token in key, element, colon or value position reaches an
\* unreachable! arm of parse_compound.
C10_NoUnreachableArm ==
  /\ result # Panic("unreachable")
  /\ result # Panic("not a map")

\* ------------------------------------------------------------------------
\* Properties of pretty()
\* ------------------------------------------------------------------------

\* the rendering of a byte slice in full
Full(slice) == pretty(slice, 0, FALSE).text

\* the rendering of the units of a byte slice, every run of invalid bytes
\* as \U, its hex digits and ;
RECURSIVE RunsClosed(_, _, _, _)
RunsClosed(output, i, invalid, text) ==
  IF i > Len(output) THEN (IF invalid THEN Append(text, 59) ELSE text)
  ELSE IF output[i].valid_utf8
    THEN RunsClosed(output, i + 1, FALSE,
           (IF invalid THEN Append(text, 59) ELSE text) \o output[i].contents)
  ELSE RunsClosed(output, i + 1, TRUE,
           (IF invalid THEN text ELSE text \o <<92, 85>>) \o output[i].contents)

\* the bytes of the input that a rendering shows
RenderedBytes(s, slice) ==
  (1..s.part1_len) \cup ((s.from2 + 1)..Len(slice))

\* the rendering of the bytes from index a to index b
Rendering(slice, a, b) == coalesced(Collected(SubSeq(slice, a, b), 0, <<>>))

\* the chars of the first n units
RECURSIVE CharsOf(_, _)
CharsOf(output, n) ==
  IF n = 0 THEN 0 ELSE CharsOf(output, n - 1) + char_count(output[n])

\* the number of leading units taken until their chars reach the budget
UnitsFor(output, budget) ==
  IF CharsOf(output, Len(output)) < budget THEN Len(output)
  ELSE CHOOSE k \in 0..Len(output) :
         /\ CharsOf(output, k) >= budget
         /\ \A j \in 0..(k - 1) : CharsOf(output, j) < budget

HeadBytes(output, budget) == InputLen(output, UnitsFor(output, budget))

\* C14: pretty(input, width) returns a string for every byte slice and
\* every width of type usize: no index, subtraction or multiplication in
\* it goes out of range or overflows.
C14_PrettyNeverPanics == shown.st # "panic"

\* C15: for every input and every width w >= 6 the shortened rendering has
\* at most w chars, the gap indicator and all escape chars counted.
C15_AtMostWidth ==
  (shown.st = "Ok" /\ width >= 6) => Len(shown.text) <= width

FullWhenWide(s, full) ==
  (s.st = "Ok" /\ width > 0 /\ Clamped(width) >= Len(full))
    => (~s.gap /\ s.text = full)

\* C16: when the clamped width is at least the number of chars of the
\* rendering in full, the shortened rendering has no gap indicator and is
\* the rendering in full.
C16_FullWhenWide == FullWhenWide(shown, Full(bytes))

\* C17: at width 0 every maximal run of invalid bytes is rendered as one
\* escape, \U, two hex digits a byte, then ;, also at the end of the input.
C17_InvalidRunsClosed ==
  (shown.st = "Ok" /\ width = 0)
    => shown.text = RunsClosed(Collected(bytes, 0, <<>>), 1, FALSE, <<>>)

\* C18: in a shortened rendering the first and the second part do not
\* overlap, the gap indicator is pushed if and only if a byte of the input
\* is in neither part, and it is pushed once, between the renderings of the
\* two parts.
C18_GapIffBytesLeftOut ==
  (shown.st = "Ok" /\ width > 0) =>
    /\ shown.part1_len <= shown.from2
    /\ shown.from2 <= Len(bytes)
    /\ shown.gap <=> (shown.part1_len < shown.from2)
    /\ shown.text =
         Rendering(bytes, 1, shown.part1_len)
           \o (IF shown.gap THEN <<GapMarker>> ELSE <<>>)
           \o Rendering(bytes, shown.from2 + 1, Len(bytes))

C18_Witness ==
  /\ shown.st = "Ok" /\ width >= 6
  /\ shown.gap
  /\ shown.part1_len > 0
  /\ shown.from2 < Len(bytes)

\* C19: for an input and widths 6 <= w1 <= w2, the bytes of the input that
\* the rendering at width w2 shows include those that the rendering at
\* width w1 shows.
C19_WidthMonotone ==
  (shown.st = "Ok" /\ width >= 6) =>
    \A w2 \in Widths :
      w2 >= width =>
        RenderedBytes(shown, bytes)
          \subseteq RenderedBytes(pretty(bytes, w2, FALSE), bytes)

C19_Witness ==
  /\ shown.st = "Ok" /\ width > 6
  /\ shown.gap
  /\ RenderedBytes(pretty(bytes, 6, FALSE), bytes) # RenderedBytes(shown, bytes)
  /\ RenderedBytes(pretty(bytes, 6, FALSE), bytes) # {}

HeadIs(s, output, full, budget) ==
  (s.st = "Ok" /\ width >= 6 /\ Len(full) > width)
    => s.part1_len = HeadBytes(output, budget)

\* C20 as stated: with a width w >= 6 and an input too long to be shown in
\* full, the first part is the leading units taken until (w + 1) / 2 chars
\* are reached.
C20_HeadHalfRoundedUp ==
  HeadIs(shown, Collected(bytes, 0, <<>>), Full(bytes), (width + 1) \div 2)

\* C20, amended: with a width w >= 6 and an input too long to be shown in
\* full, the first part is the leading units taken until the chars of
\* their contents reach w / 2, rounded down.
C20_HeadHalfRoundedDown ==
  HeadIs(shown, Collected(bytes, 0, <<>>), Full(bytes), width \div 2)

C20_Witness ==
  /\ shown.st = "Ok"
  /\ width = 7
  /\ Len(Full(bytes)) > width
  /\ shown.head_chars = 3
  /\ shown.gap

\* ------------------------------------------------------------------------
\* Properties of parse() and format()
\* ------------------------------------------------------------------------

\* item trees of atoms that are bare words, lists and maps
Trees ==
  { new_atom(<<"a">>),
    nil,
    new_map(<<>>),
    new_list(<<new_atom(<<"a">>)>>),
    new_list(<<new_atom(<<"a">>), new_atom(<<"a">>)>>),
    new_list(<<nil>>),
    new_map(<< <<new_atom(<<"a">>), new_atom(<<"a">>)>> >>),
    new_map(<< <<new_atom(<<"k">>), new_list(<<new_atom(<<"x">>)>>)>> >>) }

\* the trees with the bytes of their rendering without a width
Rendered == {<<v, Written(format(v, 0))>> : v \in Trees}

\* C11: for every item tree v of lists, maps and bare-word atoms, parse of
\* the bytes of the rendering of v without a width returns a tree equal
\* to v.
C11_RoundTrip ==
  \A r \in Rendered : (Returned /\ input = r[2]) => result = Ok(r[1])

\* white space and complete comments: introducer, blank, body, line end
Insertions ==
  { <<" ">>,
    <<"#", " ", "c", "\n">>,
    <<"#", "\t", "\"", "\r">>,
    <<"#", " ", "\n">> }

Without(in, i, n) == SubSeq(in, 1, i - 1) \o SubSeq(in, i + n, Len(in))

\* w stands in the input at index i, between two bytes that are not white
\* space and of which one is a parenthesis
InsertedAt(in, i, w) ==
  /\ i >= 2
  /\ i + Len(w) <= Len(in)
  /\ SubSeq(in, i, i + Len(w) - 1) = w
  /\ in[i - 1] \notin WhiteSpaceBytes
  /\ in[i + Len(w)] \notin WhiteSpaceBytes
  /\ in[i - 1] \in {"(", ")"} \/ in[i + Len(w)] \in {"(", ")"}

\* the result is the tree of the input without the insertion
Transparent(in, rest) ==
  (PlainBytes(rest) /\ Balanced(rest))
    => result = Ok(ReadLists(rest, 1, <<<<>>>>, <<>>))

OnlyBlank(l) == (~l.panic /\ Sig(l.toks) = <<>>) => result = Ok(nil)

\* C12: white space and comments do not affect the result of parse: an
\* input of white space and comments only parses to Ok(nil), and white
\* space or a complete comment inserted between two significant tokens
\* leaves the returned tree as it is without the insertion.
C12_BlankTransparent ==
  Returned =>
    /\ OnlyBlank(LexAll(input))
    /\ \A w \in Insertions : \A i \in 1..Len(input) :
         InsertedAt(input, i, w) => Transparent(input, Without(input, i, Len(w)))

\* the states that the lexer passes through on an input, r being its next
\* iteration from l
RECURSIVE VisitedFrom(_, _, _, _)
VisitedFrom(in, l, r, acc) ==
  IF r.panic \/ (r.ret /\ r.tok = NoToken) THEN acc \cup {l}
  ELSE VisitedFrom(in, r.lx, LoopStep(in, r.lx), acc \cup {l})

Visited(in) == VisitedFrom(in, lex, LoopStep(in, lex), {})

\* an iteration of AxpLexer::next consumes a byte or ends the stream
Consumes(l, r) == r.lx.pos > l.pos \/ (r.ret /\ r.tok = NoToken)

\* at the end of the input inside a quoted string: the Bad token that
\* stands for the missing quote, and back to Base
MissingQuote(in, l, r) ==
  /\ l.mode = "Quoted" /\ l.pos = Len(in)
  /\ r.ret /\ r.tok = Tok("Bad", <<"\"">>)
  /\ r.lx.mode = "Base" /\ r.lx.pos = l.pos

PullsConsume ==
  result.st = "init" =>
    \A l \in Visited(input) : Consumes(l, LoopStep(input, l))

PullsConsumeOrClose ==
  result.st = "init" =>
    \A l \in Visited(input) :
      Consumes(l, LoopStep(input, l)) \/ MissingQuote(input, l, LoopStep(input, l))

\* an iteration of the loop of parse_compound that goes on to the next one
\* has pulled a token, or the end of the stream
IterationConsumes ==
  (/\ result.st = "running" /\ result'.st = "running"
   /\ Len(stack') = Len(stack)
   /\ Top.pc \in {"colon", "push"}
   /\ TopOf(stack').pc = "key")
    => (Len(out') > Len(out) \/ token'.kind = "None")

\* C13 as stated: parse terminates on every finite input; every iteration
\* of the tokenizer consumes at least one byte or ends the stream, and
\* every iteration of the parser loop consumes at least one token or
\* returns.
C13_EveryPullConsumes ==
  /\ <>Returned
  /\ []PullsConsume
  /\ [][IterationConsumes]_vars

\* C13, amended: parse terminates on every finite input; every iteration
\* of the tokenizer consumes at least one byte, or ends the stream, or, at
\* the end of the input inside a quoted string, returns the Bad token of
\* the missing quote and goes back to Base, where the next pull ends the
\* stream; every iteration of the parser loop consumes at least one token
\* or returns.
C13_ParseTerminates ==
  /\ <>Returned
  /\ []PullsConsumeOrClose
  /\ [][IterationConsumes]_vars

C13_Witness ==
  /\ result = Err("bad")
  /\ Len(out) >= 3
  /\ out[Len(out)] = Tok("Bad", <<"\"">>)
  /\ input[Len(input)] = "\""
  /\ lx.mode = "Base" /\ lx.pos = Len(input)

\* ------------------------------------------------------------------------
\* Properties of pretty(), second part
\* ------------------------------------------------------------------------

\* every unit is one valid scalar that is rendered as itself
PlainUnits(output) ==
  \A i \in 1..Len(output) :
    output[i].valid_utf8 /\ Len(output[i].contents) = 1

\* the first n and the last n chars of a text
FirstChars(text, n) == SubSeq(text, 1, n)

LastChars(text, n) == SubSeq(text, Len(text) - n + 1, Len(text))

HalvesOf(s, full, w) ==
  /\ s.text = FirstChars(full, w \div 2) \o <<GapMarker>>
                \o LastChars(full, ((w + 1) \div 2) - 1)
  /\ Len(s.text) = w

\* C21: for an input of n units that each render as one unescaped char and
\* a width w with 6 <= w < n, the rendering is the first w / 2 chars
\* (rounded down), one gap indicator and the last w / 2 (rounded up) - 1
\* chars: w chars.
C21_HalvesAroundGap ==
  (/\ shown.st = "Ok" /\ width >= 6
   /\ PlainUnits(Collected(bytes, 0, <<>>))
   /\ width < Len(Collected(bytes, 0, <<>>)))
    => HalvesOf(shown, Full(bytes), width)

C21_Witness ==
  /\ shown.st = "Ok" /\ width = 7
  /\ PlainUnits(Collected(bytes, 0, <<>>))
  /\ Len(Collected(bytes, 0, <<>>)) > 14
  /\ Len(bytes) > Len(Collected(bytes, 0, <<>>))
  /\ shown.gap

\* the number that a hex digit stands for
HexValue(c) == IF c >= 97 THEN c - 87 ELSE c - 48

ByteOf(h, l) == 16 * HexValue(h) + HexValue(l)

\* the bytes of a run of invalid bytes that is written from index i on:
\* pairs of hex digits up to the ; or the end of the text
RECURSIVE ReadRun(_, _, _)
ReadRun(text, i, acc) ==
  IF i > Len(text) THEN [bytes |-> acc, next |-> i]
  ELSE IF text[i] = 59 THEN [bytes |-> acc, next |-> i + 1]
  ELSE ReadRun(text, i + 2, Append(acc, ByteOf(text[i], text[i + 1])))

\* the bytes that a rendering without a width stands for, read from index
\* i on: a backslash begins an escape, any other char stands for itself
RECURSIVE ReadBack(_, _, _)
ReadBack(text, i, acc) ==
  IF i > Len(text) THEN acc
  ELSE IF text[i] # 92 THEN ReadBack(text, i + 1, acc \o Utf8Bytes(text[i]))
  ELSE IF i = Len(text) THEN acc \o <<92>>
  ELSE IF text[i + 1] = 92 THEN ReadBack(text, i + 2, Append(acc, 92))
  ELSE IF text[i + 1] = 114 THEN ReadBack(text, i + 2, Append(acc, 13))
  ELSE IF text[i + 1] = 110 THEN ReadBack(text, i + 2, Append(acc, 10))
  ELSE IF text[i + 1] = 116 THEN ReadBack(text, i + 2, Append(acc, 9))
  ELSE IF text[i + 1] = 48 THEN ReadBack(text, i + 2, Append(acc, 0))
  ELSE IF text[i + 1] = 120 /\ i + 3 <= Len(text)
    THEN ReadBack(text, i + 4, Append(acc, ByteOf(text[i + 2], text[i + 3])))
  ELSE IF text[i + 1] = 85
    THEN On(LAMBDA r : ReadBack(text, r.next, acc \o r.bytes),
            ReadRun(text, i + 2, <<>>))
  ELSE ReadBack(text, i + 1, Append(acc, 92))

\* C22: the rendering without a width is lossless: the bytes of the input
\* are read back from it, so that two different byte strings never have
\* the same rendering, valid UTF-8 or not.
C22_FullInjective ==
  (shown.st = "Ok" /\ width = 0) => ReadBack(shown.text, 1, <<>>) = bytes

C22_Witness ==
  /\ shown.st = "Ok" /\ width = 0
  /\ bytes = <<255, 102, 97, 59>>
  /\ shown.text = <<92, 85, 102, 102, 59, 102, 97, 59>>

\* C23: without a width no control character (C0, DEL, C1) of the input
\* is in the rendering as it is: each one is written as an escape.
C23_ControlsEscaped ==
  (shown.st = "Ok" /\ width = 0) =>
    \A i \in 1..Len(shown.text) : ~is_control(shown.text[i])

Lexing == lexst = "run" /\ result.st = "init"

\* the lexer is in Quoted mode at a quote closer
AtCloser ==
  /\ Lexing /\ lx.mode = "Quoted" /\ lx.pos < Len(input)
  /\ QuotedMatch(input, lx.pos + 1).kind = "End"

\* the closer s is handled: back to Base if and only if its guard is the
\* recorded one, else it is a Quoted token and nothing else changes
CloserHandled(s) ==
  /\ lx'.pos = lx.pos + Len(s)
  /\ (lx'.mode = "Base") <=> (slice_without_last(s) = lx.guard)
  /\ slice_without_last(s) = lx.guard => out' = out
  /\ slice_without_last(s) # lx.guard =>
       /\ out' = Append(out, Tok("Quoted", s))
       /\ lx'.mode = "Quoted"
  /\ lx'.guard = lx.guard

CloserStep ==
  (AtCloser /\ lx' # lx) =>
    CloserHandled(SubSeq(input, lx.pos + 1,
                         lx.pos + QuotedMatch(input, lx.pos + 1).len))

\* C25: when a quote closer is recognized in Quoted mode, the tokenizer
\* returns to Base mode if and only if the guard of the closer equals the
\* guard recorded at the opener; a closer with another guard is emitted as
\* a Quoted token, the mode stays Quoted and the recorded guard is kept.
C25_CloserNeedsGuard == [][CloserStep]_vars

C25_Witness ==
  /\ lx.mode = "Quoted"
  /\ lx.guard = <<"#", "(", "g", ")">>
  /\ Len(out) >= 2
  /\ out[Len(out)] = Tok("Quoted", <<"\"">>)

\* the index of the first occurrence of w in the input at or after index
\* i, 0 if there is none
FirstAt(in, w, i) ==
  IF \E j \in i..Len(in) : SubSeq(in, j, j + Len(w) - 1) = w
  THEN CHOOSE j \in i..Len(in) :
         /\ SubSeq(in, j, j + Len(w) - 1) = w
         /\ \A k \in i..(j - 1) : SubSeq(in, k, k + Len(w) - 1) # w
  ELSE 0

\* the bytes from index a to index b are ordinary body bytes
Ordinary(in, a, b) == \A k \in a..b : in[k] # "\\"

\* the string opened at o is left at the closer that begins at index j
ClosedAt(in, o, j) ==
  \E q \in VisitedFrom(in, o, LoopStep(in, o), {}) :
    /\ q.mode = "Quoted" /\ q.pos = j - 1
    /\ ~LoopStep(in, q).ret
    /\ LoopStep(in, q).lx.mode = "Base"
    /\ LoopStep(in, q).lx.pos = j + Len(o.guard)

\* o is the lexer just after an opener
ClosedAtFirst(in, o, j) ==
  (j # 0 /\ Ordinary(in, o.pos + 1, j - 1)) => ClosedAt(in, o, j)

Opened(r) ==
  (~r.ret /\ ~r.panic /\ r.lx.mode = "Quoted") =>
    ClosedAtFirst(input, r.lx,
                  FirstAt(input, Append(r.lx.guard, "\""), r.lx.pos + 1))

\* a bare quote in a string with a guard is content
BareQuoteKept ==
  (Lexing /\ lx.mode = "Quoted" /\ lx.guard # <<>>
   /\ At(input, lx.pos + 1) = "\"")
    => NextQuoted(input, lx) =
         Step(TRUE, FALSE, Tok("Quoted", <<"\"">>), "Quoted", lx.pos + 1,
              lx.guard)

\* C26: a quoted string opened with the guard g is terminated by the first
\* occurrence after the opener of g followed by a quote, whatever ordinary
\* body bytes come before it; with a guard that is not empty, a bare quote
\* in the body is content and does not terminate the string.
C26_ClosedAtFirstGuard ==
  /\ (Lexing /\ lx.mode = "Base") => Opened(NextBase(input, lx))
  /\ BareQuoteKept

\* the Bad token that stands for the missing quote
MissingQuoteToken == Tok("Bad", <<"\"">>)

\* at the end of the input in Quoted mode the pull returns the token of
\* the missing quote and goes to Base
EndInQuoted ==
  (Lexing /\ lx.mode = "Quoted" /\ lx.pos = Len(input)) =>
    AxpNext(input, lx) =
      Step(TRUE, FALSE, MissingQuoteToken, "Base", Len(input), lx.guard)

\* after the token of the missing quote every pull returns the end of the
\* stream and leaves the lexer as it is
StreamEnded(r) == r.ret /\ ~r.panic /\ r.tok = NoToken /\ r.lx = lx

OnlyOneMissingQuote ==
  \A i \in 1..Len(out) :
    out[i] = MissingQuoteToken =>
      /\ i = Len(out)
      /\ lx.mode = "Base" /\ lx.pos = Len(input)
      /\ StreamEnded(AxpNext(input, lx))

\* C27: if the input ends in Quoted mode, the next pull returns one
\* synthetic Bad token and the mode becomes Base; every later pull returns
\* the end of the stream, and no second synthetic token is produced.
C27_OneMissingQuote == EndInQuoted /\ OnlyOneMissingQuote

C27_Witness ==
  /\ lexst = "done"
  /\ Len(out) >= 2
  /\ out[Len(out)] = MissingQuoteToken
  /\ out[Len(out) - 1].kind = "Quoted"

\* the lexer is in Quoted mode at a backslash that begins no escape
AtStrayBackslash ==
  /\ Lexing /\ lx.mode = "Quoted"
  /\ At(input, lx.pos + 1) = "\\"
  /\ QuotedMatch(input, lx.pos + 1).kind # "Esc"

BadReturned(r) == r.ret /\ ~r.panic /\ r.tok.kind = "Bad"

\* C28: in Quoted mode a backslash followed by anything that is not a
\* recognized escape body, a malformed \x or \u escape and the end of the
\* input included, is emitted as a Bad token and the tokenizer goes on: it
\* does not panic.
C28_BadEscapeIsToken == AtStrayBackslash => BadReturned(NextQuoted(input, lx))

\* the lexer is in Quoted mode at a guard of g bytes and an escape of a
\* letter of the set or of x and two hex digits, n bytes in all
EscapeOf(letters, b) ==
  IF At(input, b) = "\\" /\ At(input, b + 1) \in letters THEN 2
  ELSE IF /\ At(input, b) = "\\" /\ At(input, b + 1) = "x"
          /\ At(input, b + 2) \in HexBytes /\ At(input, b + 3) \in HexBytes
    THEN 4
  ELSE 0

EscapeIsToken(g, n) ==
  (Lexing /\ lx.mode = "Quoted" /\ g >= 0 /\ n > 0) =>
    NextQuoted(input, lx) =
      Step(TRUE, FALSE,
           Tok("Esc", SubSeq(input, lx.pos + 1, lx.pos + g + n)),
           "Quoted", lx.pos + g + n, lx.guard)

EscapesOf(letters, g) ==
  EscapeIsToken(g, EscapeOf(letters, lx.pos + 1 + g))

Nul == "NUL"

HasNul(s) == \E j \in 1..Len(s) : s[j] = Nul

\* C30 as stated: a NUL byte in Base mode is never part of a Bare token:
\* it is emitted as a Bad token of its own, of one byte.
C30_NulIsBad ==
  /\ \A i \in 1..Len(out) : out[i].kind = "Bare" => ~HasNul(out[i].s)
  /\ (Lexing /\ lx.mode = "Base" /\ At(input, lx.pos + 1) = Nul)
       => NextBase(input, lx).tok = Tok("Bad", <<Nul>>)

\* the Bare token holds the NUL at index i of it
BareWith(r, i) ==
  /\ r.ret /\ ~r.panic
  /\ r.tok.kind = "Bare"
  /\ Len(r.tok.s) >= i /\ r.tok.s[i] = Nul

\* C30, amended: a NUL byte in Base mode is an ordinary Bare byte: where a
\* Bare token begins or goes on, the NUL is part of it, and no Bad token
\* of the one byte NUL is emitted.
C30_NulIsBare ==
  /\ (Lexing /\ lx.mode = "Base" /\ At(input, lx.pos + 1) = Nul)
       => BareWith(NextBase(input, lx), 1)
  /\ (Lexing /\ lx.mode = "Base" /\ At(input, lx.pos + 1) = "a"
       /\ At(input, lx.pos + 2) = Nul)
       => BareWith(NextBase(input, lx), 2)
  /\ \A i \in 1..Len(out) : out[i] # Tok("Bad", <<Nul>>)

C30_Witness ==
  /\ lexst = "done"
  /\ Len(out) = 3
  /\ out[1] = Tok("Bare", <<"a", Nul, "b">>)

\* ------------------------------------------------------------------------
\* Properties of the Base mode: stray bytes, token caps and mode changes
\* ------------------------------------------------------------------------

\* the byte at index i is a backslash, or a # that begins neither a
\* comment nor the guard of a quote opener
Stray(in, i) ==
  \/ At(in, i) = "\\"
  \/ /\ At(in, i) = "#"
     /\ BaseCommentLen(in, i) = 0
     /\ BaseQuotedLen(in, i) = 0

\* the pull returns the Bad token of the n bytes at the offset and goes on
\* in Base mode right after them
BadOf(r, n) ==
  r = Step(TRUE, FALSE, Tok("Bad", SubSeq(input, lx.pos + 1, lx.pos + n)),
           "Base", lx.pos + n, lx.guard)

\* C31 as stated: in Base mode a backslash, and a # that begins neither a
\* comment nor a quote guard, is emitted as a Bad token of exactly that one
\* byte, and tokenizing resumes at the very next byte.
C31_StrayIsOneByte ==
  (Lexing /\ lx.mode = "Base" /\ Stray(input, lx.pos + 1))
    => BadOf(NextBase(input, lx), 1)

\* the # at index i is followed by a byte that begins neither a comment, a
\* guard nor another #
HashBeforePlain(in, i) ==
  /\ At(in, i) = "#"
  /\ At(in, i + 1) \notin {"EOF", " ", "\t", "(", "#", "\""}

\* C31, amended: in Base mode a backslash is emitted as a Bad token of
\* exactly that one byte and tokenizing resumes at the next byte; a #
\* followed by a byte other than space, tab, (, # and the quote is emitted
\* together with that byte as one Bad token of two bytes, and tokenizing
\* resumes after the second byte.
C31_StrayBackslashAndHash ==
  /\ (Lexing /\ lx.mode = "Base" /\ At(input, lx.pos + 1) = "\\")
       => BadOf(NextBase(input, lx), 1)
  /\ (Lexing /\ lx.mode = "Base" /\ HashBeforePlain(input, lx.pos + 1))
       => BadOf(NextBase(input, lx), 2)

C31_Witness ==
  /\ lexst = "done"
  /\ out = <<Tok("Bad", <<"\\">>), Tok("Bad", <<"#", "a">>), Tok("Bare", <<"b">>)>>

\* the bytes of a Bare token and of a WhiteSpace token
ClassOf(kind) ==
  IF kind = "Bare"
  THEN {b \in {input[i] : i \in DOMAIN input} : b \notin NotBareBytes \cup {"EOF"}}
  ELSE WhiteSpaceBytes

Min(a, b) == IF a <= b THEN a ELSE b

\* no token of the kinds with a cap is longer than 20 bytes
Capped ==
  \A i \in 1..Len(out) :
    out[i].kind \in {"Bare", "WhiteSpace"} =>
      Len(out[i].s) >= 1 /\ Len(out[i].s) <= 20

\* in Base mode at a byte of the kind, the token is the run from there on,
\* cut at 20 bytes
ChunkAt(kind) ==
  (Lexing /\ lx.mode = "Base" /\ At(input, lx.pos + 1) \in ClassOf(kind))
    => NextBase(input, lx) =
         Step(TRUE, FALSE,
              Tok(kind, SubSeq(input, lx.pos + 1, lx.pos +
                Min(20, RunIn(input, ClassOf(kind), lx.pos + 1, Len(input))))),
              "Base",
              lx.pos + Min(20, RunIn(input, ClassOf(kind), lx.pos + 1, Len(input))),
              lx.guard)

\* the number of bytes of S that end at index i
RECURSIVE RunBack(_, _, _)
RunBack(in, S, i) ==
  IF i < 1 THEN 0
  ELSE IF in[i] \notin S THEN 0
  ELSE 1 + RunBack(in, S, i - 1)

\* the lexer stands in Base mode inside a run of more than 20 bytes of the
\* kind
InsideRun(kind) ==
  /\ Lexing /\ lx.mode = "Base" /\ lx.pos >= 1
  /\ At(input, lx.pos + 1) \in ClassOf(kind)
  /\ At(input, lx.pos) \in ClassOf(kind)
  /\ RunBack(input, ClassOf(kind), lx.pos)
       + RunIn(input, ClassOf(kind), lx.pos + 1, Len(input)) > 20

\* the last token is of the kind and holds the 20 bytes before the offset
FullBefore(kind) ==
  /\ out # <<>> /\ lx.pos >= 20
  /\ out[Len(out)] = Tok(kind, SubSeq(input, lx.pos - 19, lx.pos))

\* the last token is the line terminator that ended a comment, or a Bad
\* token that took the bytes before the offset
OtherBefore ==
  /\ out # <<>>
  /\ \/ /\ out[Len(out)] = Tok("WhiteSpace", <<input[lx.pos]>>)
        /\ input[lx.pos] \in LineEndBytes
        /\ Len(out) >= 2 /\ out[Len(out) - 1].kind = "Comment"
     \/ /\ out[Len(out)].kind = "Bad"
        /\ Len(out[Len(out)].s) >= 2
        /\ out[Len(out)].s =
             SubSeq(input, lx.pos - Len(out[Len(out)].s) + 1, lx.pos)

\* C32 as stated: every Bare token and every WhiteSpace token spans at most
\* 20 bytes; a longer run of bare-word bytes or of whitespace bytes is
\* emitted as consecutive tokens of the same kind, each of 20 bytes except
\* possibly the last, whose concatenation is the run.
C32_RunsInTwenties ==
  /\ Capped
  /\ \A kind \in {"Bare", "WhiteSpace"} :
       /\ ChunkAt(kind)
       /\ InsideRun(kind) => FullBefore(kind)

\* C32, amended: every Bare token and every WhiteSpace token spans at most
\* 20 bytes; in Base mode at a byte of a run the token is the run from
\* there on, cut at 20 bytes, so that a run is emitted as consecutive
\* tokens of 20 bytes except possibly the last whose concatenation is the
\* run, unless its first bytes were taken before: by the WhiteSpace token of
\* one byte that ends a comment, or by a Bad token.
C32_RunsInTwentiesInBase ==
  /\ Capped
  /\ \A kind \in {"Bare", "WhiteSpace"} :
       /\ ChunkAt(kind)
       /\ InsideRun(kind) => (FullBefore(kind) \/ OtherBefore)

C32_Witness ==
  /\ lexst = "done"
  /\ Len(out) = 3
  /\ \A i \in 1..2 : out[i].kind = "Bare" /\ Len(out[i].s) = 20
  /\ out[3] = Tok("Bare", <<"a">>)

\* a cap for a Comment token: twice the cap of a run
CommentCap == 2 * RunCap

\* C33: every Comment token has a byte length bounded by a fixed cap that
\* does not depend on the input, the first token of a comment, which holds
\* the run of # characters, included; a longer comment is emitted as
\* bounded tokens one after the other.
C33_CommentBounded ==
  \A i \in 1..Len(out) :
    out[i].kind = "Comment" => Len(out[i].s) <= CommentCap

\* the step returns the token t
Emits(t) == out' = Append(out, t)

\* Base to Comment: a comment opener is emitted as a Comment token
ToComment ==
  /\ lx.mode = "Base" /\ lx'.mode = "Comment"
  /\ BaseCommentLen(input, lx.pos + 1) > 0
  /\ Emits(Tok("Comment", SubSeq(input, lx.pos + 1, lx'.pos)))

\* Comment to Base: a line terminator is emitted as a WhiteSpace token
FromComment ==
  /\ lx.mode = "Comment" /\ lx'.mode = "Base"
  /\ At(input, lx.pos + 1) \in LineEndBytes
  /\ lx'.pos = lx.pos + 1
  /\ Emits(Tok("WhiteSpace", <<input[lx.pos + 1]>>))

\* Base to Quoted: a quote opener, which is no token
ToQuoted ==
  /\ lx.mode = "Base" /\ lx'.mode = "Quoted"
  /\ BaseQuotedLen(input, lx.pos + 1) > 0
  /\ lx'.pos = lx.pos + BaseQuotedLen(input, lx.pos + 1)
  /\ out' = out

\* Quoted to Base: a closer with the recorded guard, which is no token, or
\* the end of the input, which is the token of the missing quote
FromQuoted ==
  /\ lx.mode = "Quoted" /\ lx'.mode = "Base"
  /\ \/ /\ lx.pos < Len(input)
        /\ QuotedMatch(input, lx.pos + 1).kind = "End"
        /\ SubSeq(input, lx.pos + 1, lx'.pos - 1) = lx.guard
        /\ At(input, lx'.pos) = "\""
        /\ out' = out
     \/ /\ lx.pos = Len(input)
        /\ Emits(MissingQuoteToken)

\* what has to change the mode does
ModeChanged ==
  /\ (lx.mode = "Base" /\ out' # out /\ out'[Len(out')].kind = "Comment")
       => lx'.mode = "Comment"
  /\ (lx.mode = "Comment" /\ At(input, lx.pos + 1) \in LineEndBytes)
       => lx'.mode = "Base"
  /\ (lx.mode = "Base" /\ out' = out /\ lexst' = "run")
       => lx'.mode = "Quoted"
  /\ (lx.mode = "Quoted" /\ lx.pos = Len(input)) => lx'.mode = "Base"

\* Colon, Open, Close and Bare tokens come from the Base mode only
BaseKinds ==
  (out' # out /\ out'[Len(out')].kind \in {"Colon", "Open", "Close", "Bare"})
    => lx.mode = "Base" /\ lx'.mode = "Base"

ModeStep ==
  (Lexing /\ lx' # lx) =>
    /\ lx'.mode # lx.mode =>
         ToComment \/ FromComment \/ ToQuoted \/ FromQuoted
    /\ ModeChanged
    /\ BaseKinds

\* C34: the mode of the tokenizer changes only from Base to Comment when a
\* comment opener is emitted, from Comment to Base at a line terminator,
\* which is emitted as a WhiteSpace token, from Base to Quoted at a quote
\* opener and from Quoted to Base at a closer with the recorded guard or at
\* the end of the input; every other token leaves the mode as it is, and
\* Colon, Open, Close and Bare tokens are produced in Base mode only.
C34_ModeChanges == [][ModeStep]_vars

C34_Witness ==
  /\ lexst = "done"
  /\ out = <<Tok("Open", <<>>), Tok("Comment", <<"#", "\t", "\"">>),
             Tok("WhiteSpace", <<"\r">>), Tok("Bare", <<"a">>),
             Tok("Close", <<>>)>>

\* ------------------------------------------------------------------------
\* Properties of the operations on an Item
\* ------------------------------------------------------------------------

\* the texts one after the other with one space between two of them
RECURSIVE Spaced(_)
Spaced(texts) ==
  IF Len(texts) = 0 THEN <<>>
  ELSE IF Len(texts) = 1 THEN texts[1]
  ELSE Spaced(SubSeq(texts, 1, Len(texts) - 1)) \o <<32>> \o texts[Len(texts)]

\* the rendering of an Item from the renderings of its atoms at width w
RECURSIVE TextOf(_, _)
TextOf(item, w) ==
  CASE item.t = "Atom" -> pretty(Codes(item.b), w, FALSE).text
    [] item.t = "List" ->
         <<40>> \o Spaced([i \in DOMAIN item.e |-> TextOf(item.e[i], w)])
           \o <<41>>
    [] item.t = "Map" ->
         <<40>> \o Spaced([i \in DOMAIN item.e |->
                     TextOf(item.e[i][1], w) \o <<58, 32>>
                       \o TextOf(item.e[i][2], w)])
           \o <<41>>

\* C35: Item::format renders a List as ( , the renderings of its elements
\* with single spaces between them, and ) , and a Map as ( , its pairs
\* key: value with single spaces between them, and ) , recursively; the
\* empty List and the empty Map render as () , and every atom is rendered
\* with the width given to format.
C35_FormatCompound ==
  shown.st = "Ok" =>
    /\ shown.text = TextOf(expr, width)
    /\ (expr.t # "Atom" /\ is_empty(expr)) => shown.text = <<40, 41>>

C35_Witness ==
  /\ shown.st = "Ok"
  /\ width = 7
  /\ expr.t = "List" /\ Len(expr.e) = 2 /\ expr.e[2].t = "Map"
  /\ Len(shown.text) = 22
  /\ Cardinality({i \in DOMAIN shown.text : shown.text[i] = GapMarker}) = 2

\* what first returned is nil for the empty list, else the first element
FirstIs ==
  /\ outcome'.st = "Ok"
  /\ Len(expr.e) = 0 => outcome'.item = nil
  /\ Len(expr.e) >= 1 => <<outcome'.item>> = SubSeq(expr.e, 1, 1)
  /\ expr' = expr

\* what tail returned is a list of the elements but the first, in order
TailIs ==
  /\ outcome'.st = "Ok"
  /\ outcome'.item.t = "List"
  /\ Len(expr.e) <= 1 => outcome'.item = nil
  /\ Len(expr.e) >= 1 =>
       /\ Len(outcome'.item.e) = Len(expr.e) - 1
       /\ \A i \in 1..Len(outcome'.item.e) :
            outcome'.item.e[i] = expr.e[i + 1]
  /\ expr' = expr

FirstTailStep == (First => FirstIs) /\ (ListTail => TailIs)

\* C36: List::first returns nil for the empty list and else the first
\* element; List::tail returns a new list of all elements but the first,
\* in order, nil for the empty list and for a list of one element; both
\* leave the list as it is.
C36_FirstAndTail == [][FirstTailStep]_vars

C36_Witness ==
  /\ outcome.st = "Ok"
  /\ expr.t = "List" /\ Len(expr.e) = 3
  /\ expr.e[1] = new_atom(<<"a">>)
  /\ expr.e[2] = new_atom(NameIf)
  /\ expr.e[3] = nil
  /\ outcome.item = new_list(<<new_atom(NameIf), nil>>)

\* the element of the list at index i, nil where there is none
Element(list, i) == IF i <= Len(list.e) THEN list.e[i] ELSE nil

\* the list begins with the atom if
IsIf(item) ==
  item.t = "List" /\ Len(item.e) >= 1 /\ item.e[1] = new_atom(NameIf)

\* the branch of an if: the second argument if there is a first argument
\* that is not empty, else the third
Branch(list) ==
  IF Len(list.e) >= 2 /\ ~is_empty(list.e[2])
  THEN Element(list, 3) ELSE Element(list, 4)

\* evaluate returns
Returns == outcome = NotDone /\ outcome'.st = "Ok" /\ run # Idle

IfStep == (IsIf(expr) /\ Returns) => outcome' = Done(Branch(expr))

\* in the evaluation of an if nothing waits but its evaluate_list: operator
\* and evaluate_atom are called once each and make no call
IfIsShort == (IsIf(expr) /\ run # Idle) => (calls' = <<>> \/ Len(calls') = 1)

\* C37: evaluate of a list whose first element is the atom if returns,
\* without evaluating it, the second argument if the first argument is not
\* empty, and else the third argument, nil where that is absent; evaluate
\* of the list (if true a) is the atom a.
C37_IfReturnsBranch == [][IfStep /\ IfIsShort]_vars

C37_Witness ==
  /\ expr = new_list(<<new_atom(NameIf), new_atom(<<"t", "r", "u", "e">>),
                       new_atom(<<"a">>)>>)
  /\ outcome = Done(new_atom(<<"a">>))

\* ------------------------------------------------------------------------
\* Properties of parse() on long bare words
\* ------------------------------------------------------------------------

\* the input is one run of bare-word bytes
BareOnly(in) == in # <<>> /\ \A i \in DOMAIN in : in[i] \notin NotBareBytes

\* C38: a maximal run of bare-word bytes, of any length, parses to exactly
\* one Atom whose bytes are the whole run: the Bare tokens that the cap of
\* 20 bytes makes of it are joined again by the parser and are not
\* elements of their own.
C38_RunIsOneAtom ==
  (Returned /\ BareOnly(input)) => result = Ok(new_list(<<new_atom(input)>>))

\* ------------------------------------------------------------------------
\* Properties of pretty(), third part: the units of the tail
\* ------------------------------------------------------------------------

\* the units of the whole slice, from the left
WholeUnits(slice) == Collected(slice, 0, <<>>)

\* the offset k is where a unit of the whole slice begins, or the end
Boundary(slice, k) ==
  \E n \in 0..Len(WholeUnits(slice)) : InputLen(WholeUnits(slice), n) = k

\* the last n of the units
LastUnits(units, n) == SubSeq(units, Len(units) - n + 1, Len(units))

\* the offset from which pretty() decodes the suffix
SuffixStart ==
  Max(saturating_sub(Len(bytes), 4 * (Clamped(width) \div 2)),
      shown.part1_len)

\* the units decoded from the offset k on are the last units of the whole
\* slice
UnitsOfWhole(slice, k) ==
  /\ Len(Collected(slice, k, <<>>)) <= Len(WholeUnits(slice))
  /\ Collected(slice, k, <<>>) =
       LastUnits(WholeUnits(slice), Len(Collected(slice, k, <<>>)))

\* the text ends with t
EndsWith(text, t) ==
  /\ Len(text) >= Len(t)
  /\ SubSeq(text, Len(text) - Len(t) + 1, Len(text)) = t

\* C39: in a shortened rendering every unit shown in the tail is a unit of
\* the decomposition of the whole input from the left: the tail begins
\* where such a unit begins, although the suffix it is taken from may begin
\* inside a scalar, and it shows no continuation byte of a valid scalar as
\* an invalid byte.
C39_TailUnitsAligned ==
  (shown.st = "Ok" /\ width > 0) =>
    /\ Boundary(bytes, shown.from2)
    /\ UnitsOfWhole(bytes, shown.from2)
    /\ EndsWith(shown.text, coalesced(Collected(bytes, shown.from2, <<>>)))

C39_Witness ==
  /\ shown.st = "Ok" /\ width > 0
  /\ shown.gap
  /\ ~Boundary(bytes, SuffixStart)
  /\ shown.from2 > SuffixStart
  /\ shown.from2 < Len(bytes)

\* ------------------------------------------------------------------------
\* Properties of evaluate: termination
\* ------------------------------------------------------------------------

\* C40: evaluate terminates for every Item: for the empty list, for a list
\* whose first element is an empty list and for eval applied to a list
\* that leads back to eval as for every other Item, the calls of
\* evaluate_list and operator reach a result.
C40_EvaluateTerminates == (run # Idle) ~> (outcome.st = "Ok")

====
